---- MODULE Spec2Model ----
(***************************************************************************)
(* State-machine model of tulayngmamamo, the message bridge between the    *)
(* assistants claude and codex: the HTTP session layer and ClientRegistry  *)
(* (mcp/http.ts, mcp/clientRegistry.ts), the store (db/*.ts), the          *)
(* MessageDispatcher, the QueueProcessor and the InMemoryEventStore.       *)
(*                                                                         *)
(* Every `await` of the source is a point where another handler may run,   *)
(* so an async function is an action per synchronous stretch.              *)
(***************************************************************************)
EXTENDS Integers, Sequences, FiniteSets, TLC

\* ------------------------------------------------------------------ bounds
MaxSessions == 2
MaxMessages == 2
MaxTicks == 1

\* The queue a run starts with: how many rows, and how long time is followed.
MaxQueued == 3
MaxRetryTicks == 2

MaxSeq == 3
MaxClock == 3
\* The event store's constructor options, scaled down from 15 minutes and 5000.
ttlMs == 1
maxEventsPerStream == 2

\* Concurrent CodexMcpClient.sendMessage calls, and Client objects ever created.
MaxMcpCalls == 2
MaxConnects == 2
\* The number of messages a conversation context takes, scaled down from 20.
contextLimit == 2
\* The longest message history a context is built from.
MaxHistory == 4

\* ------------------------------------------------------- program constants
baseDelay == 30
maxDelay == 3600
dequeueLimit == 10
dispatcherMaxAttempts == 5

Clients == {"claude", "codex"}
CLIENTS == <<"claude", "codex">>
NoClient == "none"
SessionIds == 1..MaxSessions
Absent == "absent"
Null == 0
Stale == -1
NoTime == -1

Priorities == {"normal", "high", "urgent"}

TimeoutsS == {30}

VARIABLES
  sessions,        \* http.ts sessions map: session id -> clientId, or Absent
  nextSid,         \* the next fresh session id (randomUUID never repeats)
  activeSessions,  \* ClientRegistry.activeSessions: clientId -> session id, or Null
  clients,         \* table clients: clientId -> [status, session_id]
  conversations,   \* table conversations, in insertion order; the index is the id
  messages,        \* table messages, in insertion order; the index is the id
  message_queue,   \* table message_queue: a set of rows
  invocations,     \* table invocations, in insertion order
  calls,           \* one entry per message: the position of the sendMessage call that created it
  hookDrain,       \* per session: what is left of the drain started by onsessioninitialized
  timerDrain,      \* the periodic drain: position in processQueue
  now,             \* the wall clock, in seconds
  closed,          \* whether the onClose hook has run
  streams,         \* InMemoryEventStore.streams: stream id -> StreamState, or NoStream
  clock,           \* Date.now() of the event store, in units of the ttl's scale
  out,             \* what the last event-store call sent and returned
  reply,           \* the answer to the last refused request: a tool error envelope or an HTTP 400
  gets,            \* the get_response call in flight, its position and its result
  req,             \* what the last initialize request carried to identify the client
  dequeued,        \* what the last direct dequeueMessages call was asked and returned
  context,         \* the last conversation context built, and for which conversation
  mcpClient,       \* CodexMcpClient.client: NoObject, or the Client object and whether it is connected
  mcpTransport,    \* CodexMcpClient.transport: NoTransport, or the transport object and whether it was closed
  mcpReady,        \* whether a connect() has returned true for the client object now in place
  mcpGen,          \* how many Client objects connect() has created
  mcpCalls         \* the CodexMcpClient.sendMessage calls: position, flags and result of each

brokerVars == <<sessions, nextSid, activeSessions, clients, conversations, messages, message_queue,
                invocations, calls, hookDrain, timerDrain, now, closed>>

storeVars == <<streams, clock, out>>

toolVars == <<reply, gets>>

httpVars == <<req>>

mcpVars == <<mcpClient, mcpTransport, mcpReady, mcpGen, mcpCalls>>

callVars == <<dequeued, context, mcpVars>>

vars == <<brokerVars, storeVars, toolVars, httpVars, callVars>>

\* ================================================================ registry
\* setOnline with a slip: the registry is not written.
setOnlineLater(reg, clientId, sessionId) == reg

setOnline(reg, clientId, sessionId) == [reg EXCEPT ![clientId] = sessionId]

\* setOffline with a slip: the entry is kept.
setOfflineKeepingEntry(reg, clientId) == reg

setOffline(reg, clientId) == [reg EXCEPT ![clientId] = Null]

isOnline(reg, clientId) == reg[clientId] # Null

getSessionId(reg, clientId) == reg[clientId]

clear(reg) == [c \in Clients |-> Null]

\* ============================================================ clients table
updateClientStatus(tbl, id, status, sessionId) ==
  [tbl EXCEPT ![id] = [status |-> status, session_id |-> sessionId]]

\* setClientOffline with a slip: session_id is left as it was.
setClientOfflineKeepingSession(tbl, id) ==
  [tbl EXCEPT ![id].status = "offline"]

setClientOffline(tbl, id) ==
  [tbl EXCEPT ![id] = [status |-> "offline", session_id |-> Null]]

isClientOnline(tbl, id) == tbl[id].status = "online"

\* ================================================================= identity
\* Strings are sequences of characters, so that includes is a search. A header
\* or query field is a sequence of at most one string: <<>> is undefined.
includes(s, p) == \E i \in 1..(Len(s) - Len(p) + 1) : SubSeq(s, i, i + Len(p) - 1) = p

claudeLiteral == <<"c", "l", "a", "u", "d", "e">>
codexLiteral == <<"c", "o", "d", "e", "x">>
claudeCodePattern == <<"c", "l", "a", "u", "d", "e", "-", "c", "o", "d", "e">>
ClaudePattern == <<"C", "l", "a", "u", "d", "e">>
CodexPattern == <<"C", "o", "d", "e", "x">>

\* header === "claude" || header === "codex"
isClientLiteral(field) == field # <<>> /\ field[1] \in {claudeLiteral, codexLiteral}

\* The ClientId a literal spells.
asClientId(s) == IF s = claudeLiteral THEN "claude" ELSE "codex"

\* identifyClient with a slip: the query parameter is looked at before the user-agent.
identifyClientQueryFirst(r) ==
  LET ua == IF r.userAgent = <<>> \/ r.userAgent[1] = <<>> THEN <<>> ELSE r.userAgent[1]
  IN IF isClientLiteral(r.xClientId) THEN asClientId(r.xClientId[1])
     ELSE IF isClientLiteral(r.client) THEN asClientId(r.client[1])
     ELSE IF includes(ua, claudeCodePattern) \/ includes(ua, ClaudePattern) THEN "claude"
     ELSE IF includes(ua, codexLiteral) \/ includes(ua, CodexPattern) THEN "codex"
     ELSE NoClient

\* identifyClient: the x-client-id header, then the user-agent, then ?client=.
identifyClient(r) ==
  LET ua == IF r.userAgent = <<>> \/ r.userAgent[1] = <<>> THEN <<>> ELSE r.userAgent[1]
  IN IF isClientLiteral(r.xClientId) THEN asClientId(r.xClientId[1])
     ELSE IF includes(ua, claudeCodePattern) \/ includes(ua, ClaudePattern) THEN "claude"
     ELSE IF includes(ua, codexLiteral) \/ includes(ua, CodexPattern) THEN "codex"
     ELSE IF isClientLiteral(r.client) THEN asClientId(r.client[1])
     ELSE NoClient

\* The values the three fields take in a run: absent, the literals, and near
\* misses in case and spacing.
HeaderValues ==
  {<<>>, <<claudeLiteral>>, <<codexLiteral>>, <<ClaudePattern>>,
   <<codexLiteral \o <<" ">> >>, << <<>> >>}

UserAgents ==
  {<<>>, << <<>> >>,
   <<claudeCodePattern \o <<"/", "1">> >>,
   << <<"A", "i", " ">> \o ClaudePattern>>,
   <<codexLiteral \o <<"-", "c", "l", "i">> >>,
   <<CodexPattern>>,
   <<claudeLiteral>>,
   << <<"C", "O", "D", "E", "X">> >>,
   <<CodexPattern \o <<" ">> \o ClaudePattern>>,
   << <<"c", "u", "r", "l">> >>}

QueryValues ==
  {<<>>, <<claudeLiteral>>, <<codexLiteral>>, <<CodexPattern>>}

Requests == [xClientId : HeaderValues, userAgent : UserAgents, client : QueryValues]

NoRequest == [xClientId |-> <<>>, userAgent |-> <<>>, client |-> <<>>]

\* =========================================================== messages table
\* The row keeps the columns that some operation reads or that decide a status;
\* content, metadata, the priority label, created_at and delivered_at are only
\* ever written.
createMessage(msgs, conv, sender, target, type, responseTo) ==
  Append(msgs, [conversation_id |-> conv, sender |-> sender, target |-> target,
                message_type |-> type, status |-> "pending",
                response_to_id |-> responseTo, read_at |-> NoTime])

\* The rows with this id: one, or none when the message does not exist.
getMessage(msgs, id) == IF id \in DOMAIN msgs THEN {msgs[id]} ELSE {}

updateMessageStatus(msgs, id, status, t) ==
  IF id \notin DOMAIN msgs THEN msgs
  ELSE IF status = "read"
       THEN [msgs EXCEPT ![id].status = status, ![id].read_at = t]
  ELSE [msgs EXCEPT ![id].status = status]

\* getResponseToMessage with a slip: the WHERE clause does not look at the id.
getResponseToAnyMessage(msgs, id) ==
  LET rs == {r \in DOMAIN msgs : msgs[r].response_to_id # Null}
  IN IF rs = {} THEN Null ELSE CHOOSE r \in rs : \A o \in rs : r <= o

\* getConversationMessages: the conversation's rows by created_at ascending,
\* which is insertion order, from offset on and at most limit of them; the
\* result is the sequence of their ids.
RECURSIVE conversationIds(_, _, _)
conversationIds(msgs, conversationId, upTo) ==
  IF upTo = 0 THEN <<>>
  ELSE LET earlier == conversationIds(msgs, conversationId, upTo - 1)
       IN IF msgs[upTo].conversation_id = conversationId THEN Append(earlier, upTo)
          ELSE earlier

getConversationMessages(msgs, conversationId, limit, offset) ==
  LET all == conversationIds(msgs, conversationId, Len(msgs))
      rest == SubSeq(all, offset + 1, Len(all))
  IN IF Len(rest) <= limit THEN rest ELSE SubSeq(rest, 1, limit)

\* The earliest message whose response_to_id is id, or Null.
getResponseToMessage(msgs, id) ==
  LET rs == {r \in DOMAIN msgs : msgs[r].response_to_id = id}
  IN IF rs = {} THEN Null ELSE CHOOSE r \in rs : \A o \in rs : r <= o

\* ====================================================== message_queue table
MaxOf(S) == CHOOSE x \in S : \A y \in S : y <= x

\* INTEGER PRIMARY KEY without AUTOINCREMENT: the new rowid is the largest one in
\* the table plus one.
nextRowId(q) == IF q = {} THEN 1 ELSE MaxOf({e.id : e \in q}) + 1

enqueueMessage(q, messageId, target, priority, maxAttempts, t) ==
  q \cup {[id |-> nextRowId(q), message_id |-> messageId, target |-> target,
           priority |-> priority, attempts |-> 0, max_attempts |-> maxAttempts,
           next_attempt |-> t]}

\* ORDER BY with a slip: priority ascending.
BeforeLowPriorityFirst(a, b) ==
  \/ a.priority < b.priority
  \/ a.priority = b.priority /\ a.next_attempt < b.next_attempt
  \/ a.priority = b.priority /\ a.next_attempt = b.next_attempt /\ a.id < b.id

\* ORDER BY priority DESC, next_attempt ASC; rows that tie come in rowid order.
Before(a, b) ==
  \/ a.priority > b.priority
  \/ a.priority = b.priority /\ a.next_attempt < b.next_attempt
  \/ a.priority = b.priority /\ a.next_attempt = b.next_attempt /\ a.id < b.id

RECURSIVE SortRows(_)
SortRows(S) ==
  IF S = {} THEN <<>>
  ELSE LET first == CHOOSE a \in S : \A b \in S \ {a} : Before(a, b)
       IN <<first>> \o SortRows(S \ {first})

Take(s, n) == IF Len(s) <= n THEN s ELSE SubSeq(s, 1, n)

\* dequeueMessages with a slip: only rows that were already retried are selected.
dequeueRetriedOnly(q, target, limit, t) ==
  Take(SortRows({e \in q : /\ e.target = target
                           /\ e.next_attempt <= t
                           /\ e.attempts > 0
                           /\ e.attempts < e.max_attempts}), limit)

dequeueMessages(q, target, limit, t) ==
  Take(SortRows({e \in q : /\ e.target = target
                           /\ e.next_attempt <= t
                           /\ e.attempts < e.max_attempts}), limit)

\* ========================================================== CodexMcpClient
McpCallers == 1..MaxMcpCalls

\* The null of this.client and of this.transport; objects count from 1.
NoObject == [gen |-> 0, connected |-> FALSE]
NoTransport == [gen |-> 0, closed |-> FALSE]

\* A sendMessage call that has not started.
NoMcpCall == [pc |-> "idle", gen |-> 0, wire |-> FALSE, connected |-> FALSE,
              failed |-> "none", result |-> "none"]

\* The client after construction: nothing spawned.
McpInit ==
  /\ mcpClient = NoObject
  /\ mcpTransport = NoTransport
  /\ mcpReady = FALSE
  /\ mcpGen = 0
  /\ mcpCalls = [c \in McpCallers |-> NoMcpCall]

isConnected == mcpClient # NoObject

\* The SDK request a call is waiting for can still be answered: the Client
\* object it was made on is in place and connected.
Answerable(c) ==
  /\ mcpClient # NoObject
  /\ mcpClient.gen = mcpCalls[c].gen
  /\ mcpClient.connected

\* disconnect() up to its await: transport.close() is called if there is a
\* transport, and the process behind the client goes away; without a transport
\* the fields are cleared at once and the caller returns null.
disconnect(c, why) ==
  IF mcpTransport # NoTransport
    THEN /\ mcpTransport' = [mcpTransport EXCEPT !.closed = TRUE]
         /\ mcpClient' = IF mcpClient = NoObject THEN NoObject
                         ELSE [mcpClient EXCEPT !.connected = FALSE]
         /\ mcpCalls' = [mcpCalls EXCEPT ![c].pc = "closing", ![c].failed = why]
         /\ UNCHANGED <<mcpReady, mcpGen>>
  ELSE /\ mcpClient' = NoObject
       /\ mcpTransport' = NoTransport
       /\ mcpReady' = FALSE
       /\ mcpCalls' = [mcpCalls EXCEPT ![c].pc = "done", ![c].failed = why,
                                       ![c].result = "null"]
       /\ UNCHANGED mcpGen

\* this.client!.callTool(...) inside the try: a TypeError without a client, a
\* rejected promise on a client that is not connected, a request on the wire
\* otherwise.
callTool(c, before) ==
  IF mcpClient' = NoObject
    THEN /\ mcpCalls' = [before EXCEPT ![c].pc = "thrown"]
  ELSE /\ mcpCalls' = [before EXCEPT ![c].pc = "tool", ![c].gen = mcpClient'.gen,
                                     ![c].wire = mcpClient'.connected]

McpOthers == <<brokerVars, storeVars, toolVars, httpVars, dequeued, context>>

\* sendMessage starts: connect() up to transport.start() when there is no
\* client, the tool call at once when there is one.
McpSend(c) ==
  /\ mcpCalls[c].pc = "idle"
  /\ IF mcpClient = NoObject
       THEN /\ mcpGen < MaxConnects
            /\ mcpGen' = mcpGen + 1
            /\ mcpTransport' = [gen |-> mcpGen + 1, closed |-> FALSE]
            /\ mcpClient' = [gen |-> mcpGen + 1, connected |-> FALSE]
            /\ mcpReady' = FALSE
            /\ mcpCalls' = [mcpCalls EXCEPT ![c] = [NoMcpCall EXCEPT !.pc = "start",
                                                      !.gen = mcpGen + 1,
                                                      !.connected = TRUE]]
       ELSE /\ UNCHANGED <<mcpClient, mcpTransport, mcpReady, mcpGen>>
            /\ callTool(c, [mcpCalls EXCEPT ![c] = NoMcpCall])
  /\ UNCHANGED McpOthers

\* transport.start() has returned or thrown; then client.connect(transport) on
\* whatever this.client is by now.
McpStarted(c, ok) ==
  /\ mcpCalls[c].pc = "start"
  /\ ok => mcpTransport # NoTransport /\ mcpTransport.gen = mcpCalls[c].gen /\ ~mcpTransport.closed
  /\ IF ok /\ mcpClient # NoObject
       THEN /\ mcpCalls' = [mcpCalls EXCEPT ![c].pc = "connect", ![c].gen = mcpClient.gen]
            /\ UNCHANGED <<mcpClient, mcpTransport, mcpReady, mcpGen>>
       ELSE disconnect(c, "connect")
  /\ UNCHANGED McpOthers

\* client.connect() has returned or thrown; then client.listTools().
McpConnected(c, ok) ==
  /\ mcpCalls[c].pc = "connect"
  /\ ok => /\ mcpClient # NoObject /\ mcpClient.gen = mcpCalls[c].gen
            /\ mcpTransport # NoTransport /\ ~mcpTransport.closed
  /\ IF ok
       THEN /\ mcpClient' = [mcpClient EXCEPT !.connected = TRUE]
            /\ mcpCalls' = [mcpCalls EXCEPT ![c].pc = "list"]
            /\ UNCHANGED <<mcpTransport, mcpReady, mcpGen>>
       ELSE disconnect(c, "connect")
  /\ UNCHANGED McpOthers

\* listTools() has returned a list with or without the codex tool, or thrown;
\* with the tool connect() returns true and sendMessage goes on to its tool call.
McpListed(c, tools) ==
  /\ mcpCalls[c].pc = "list"
  /\ tools # "thrown" => Answerable(c)
  /\ IF tools = "codex"
       THEN /\ mcpReady' = TRUE
            /\ UNCHANGED <<mcpClient, mcpTransport, mcpGen>>
            /\ callTool(c, mcpCalls)
       ELSE disconnect(c, "connect")
  /\ UNCHANGED McpOthers

\* The tool call has returned a result, or thrown.
McpToolReturn(c, ok) ==
  /\ mcpCalls[c].pc \in {"tool", "thrown"}
  /\ ok => mcpCalls[c].pc = "tool" /\ mcpCalls[c].wire /\ Answerable(c)
  /\ IF ok
       THEN /\ mcpCalls' = [mcpCalls EXCEPT ![c].pc = "done", ![c].result = "result"]
            /\ UNCHANGED <<mcpClient, mcpTransport, mcpReady, mcpGen>>
       ELSE disconnect(c, "tool")
  /\ UNCHANGED McpOthers

\* The rest of disconnect() with a slip: the fields are not cleared.
McpClosedKeepingClient(c) ==
  /\ mcpCalls[c].pc = "closing"
  /\ mcpCalls' = [mcpCalls EXCEPT ![c].pc = "done", ![c].result = "null"]
  /\ UNCHANGED <<mcpClient, mcpTransport, mcpReady, mcpGen, McpOthers>>

\* transport.close() has returned or thrown: the rest of disconnect(), and the
\* caller returns null.
McpClosed(c) ==
  /\ mcpCalls[c].pc = "closing"
  /\ mcpClient' = NoObject
  /\ mcpTransport' = NoTransport
  /\ mcpReady' = FALSE
  /\ mcpCalls' = [mcpCalls EXCEPT ![c].pc = "done", ![c].result = "null"]
  /\ UNCHANGED <<mcpGen, McpOthers>>

\* The caller has its answer; the next sendMessage can start.
McpReturn(c) ==
  /\ mcpCalls[c].pc = "done"
  /\ mcpCalls' = [mcpCalls EXCEPT ![c].pc = "idle"]
  /\ UNCHANGED <<mcpClient, mcpTransport, mcpReady, mcpGen, McpOthers>>

\* No conversation context was built yet.
NoContext == [conversationId |-> Null, text |-> <<>>]

\* No dequeueMessages call was made directly yet.
NoDequeue == [target |-> NoClient, limit |-> 0, at |-> 0, rows |-> <<>>]

\* incrementAttempts with a slip: the retried row is inserted beside the old one.
incrementAttemptsByInsert(q, id, delaySeconds, t) ==
  q \cup {[e EXCEPT !.id = nextRowId(q), !.attempts = e.attempts + 1,
                    !.next_attempt = t + delaySeconds] : e \in {r \in q : r.id = id}}

incrementAttempts(q, id, delaySeconds, t) ==
  {IF e.id = id
     THEN [e EXCEPT !.attempts = e.attempts + 1, !.next_attempt = t + delaySeconds]
     ELSE e : e \in q}

removeFromQueue(q, messageId) == {e \in q : e.message_id # messageId}

clearExhaustedMessages(q) == {e \in q : ~(e.attempts >= e.max_attempts)}

\* ========================================================== QueueProcessor
Min(a, b) == IF a < b THEN a ELSE b

backoffDelaySeconds(attempts) == Min(baseDelay * 2^attempts, maxDelay)

scheduleRetry(q, item, t) == incrementAttempts(q, item.id, backoffDelaySeconds(item.attempts), t)

\* attemptDelivery on the store (messages, queue, clients); the result names the branch.
attemptDelivery(msgs, q, tbl, target, item, t) ==
  IF getMessage(msgs, item.message_id) = {}
    THEN [messages |-> msgs, queue |-> removeFromQueue(q, item.message_id),
          result |-> "removed"]
  ELSE IF ~isClientOnline(tbl, target)
    THEN [messages |-> msgs, queue |-> scheduleRetry(q, item, t), result |-> "retry"]
  ELSE [messages |-> updateMessageStatus(msgs, item.message_id, "delivered", t),
        queue |-> removeFromQueue(q, item.message_id), result |-> "delivered"]

\* processQueueForTarget with a slip: the online check at the top is missing.
processQueueForTargetUnchecked(msgs, q, tbl, target, t) ==
  LET queued == dequeueMessages(q, target, dequeueLimit, t)
  IN IF queued = <<>>
       THEN [messages |-> msgs, queue |-> q, rest |-> <<>>, result |-> "empty"]
     ELSE LET r == attemptDelivery(msgs, q, tbl, target, Head(queued), t)
          IN [messages |-> r.messages, queue |-> r.queue, rest |-> Tail(queued),
              result |-> r.result]

\* processQueueForTarget up to its first suspension: the online check, the
\* dequeued snapshot and the attempt on its first row. rest is what the loop
\* still holds.
processQueueForTarget(msgs, q, tbl, target, t) ==
  IF ~isClientOnline(tbl, target)
    THEN [messages |-> msgs, queue |-> q, rest |-> <<>>, result |-> "offline"]
  ELSE LET queued == dequeueMessages(q, target, dequeueLimit, t)
       IN IF queued = <<>>
            THEN [messages |-> msgs, queue |-> q, rest |-> <<>>, result |-> "empty"]
          ELSE LET r == attemptDelivery(msgs, q, tbl, target, Head(queued), t)
               IN [messages |-> r.messages, queue |-> r.queue, rest |-> Tail(queued),
                   result |-> r.result]

\* =========================================================== conversations
createConversation(convs, createdBy) ==
  Append(convs, [created_by |-> createdBy, status |-> "active", closed_at |-> NoTime])

getConversation(convs, id) == IF id \in DOMAIN convs THEN {convs[id]} ELSE {}

\* updateConversation with a slip: closed_at is not written.
updateConversationStatusOnly(convs, id, status, t) ==
  IF id \in DOMAIN convs THEN [convs EXCEPT ![id].status = status] ELSE convs

\* UPDATE conversations SET status (and closed_at for the two closing statuses)
\* WHERE id; no row, no change.
updateConversation(convs, id, status, t) ==
  IF id \in DOMAIN convs
    THEN [convs EXCEPT ![id].status = status,
                       ![id].closed_at = IF status \in {"completed", "archived"} THEN t ELSE @]
  ELSE convs

closeConversation(convs, id, t) == updateConversation(convs, id, "completed", t)

\* ============================================================== dispatcher
\* priorityMap with a slip: every label is normal.
priorityMapFlat(label) == 0

priorityMap(label) ==
  CASE label = "urgent" -> 2 [] label = "high" -> 1 [] label = "normal" -> 0

\* getResponseType with a slip: the request's own type is handed back.
getResponseTypeEcho(requestType) == requestType

getResponseType(requestType) ==
  CASE requestType = "research_request" -> "research_response"
    [] requestType = "review_request" -> "review_response"
    [] OTHER -> "message"

\* route with a slip: the registry's answer is not looked at.
routeByTargetOnly(targetOnline, target) ==
  IF target = "codex" THEN "invoke" ELSE "enqueue"

\* The three routes of sendMessage, from the registry's answer and the target.
route(targetOnline, target) ==
  IF targetOnline THEN "deliver"
  ELSE IF target = "codex" THEN "invoke"
  ELSE "enqueue"

NoCall == [pc |-> "none", targetOnline |-> FALSE, waitForResponse |-> FALSE,
           timeoutS |-> 0, startTime |-> 0, mcpResult |-> "unset", response |-> Null,
           invoked |-> FALSE, invokedViaMcp |-> FALSE, invocationError |-> FALSE,
           invocation |-> Null]

\* Responses that calls suspended in a tier may still insert.
Reserved == Cardinality({m \in DOMAIN calls : calls[m].pc \in {"tierA", "tierB"}})

\* sendMessage returns: what is left is its result; its locals are gone.
return(call) ==
  [call EXCEPT !.pc = "done", !.waitForResponse = FALSE, !.timeoutS = 0, !.startTime = 0,
               !.invocation = Null]

\* waitForResponse with a slip: the loop test does not look at the time.
waitForResponseForever(call, msgs, id, t) ==
  LET r == getResponseToMessage(msgs, id)
  IN IF r # Null THEN return([call EXCEPT !.response = r])
     ELSE [call EXCEPT !.pc = "wait"]

\* waitForResponse from the loop test on: the response found, the timeout, or
\* another sleep.
waitForResponse(call, msgs, id, t) ==
  IF t - call.startTime < call.timeoutS
    THEN LET r == getResponseToMessage(msgs, id)
         IN IF r # Null THEN return([call EXCEPT !.response = r])
            ELSE [call EXCEPT !.pc = "wait"]
  ELSE return(call)

\* The tail of sendMessage: poll only when asked to and nothing has answered yet.
finish(call, msgs, id, t) ==
  IF call.waitForResponse /\ call.response = Null
    THEN waitForResponse([call EXCEPT !.startTime = t], msgs, id, t)
  ELSE return(call)

\* ================================================================= replies
NoReply == [http |-> 0, isError |-> FALSE, code |-> 0, id |-> "none", error |-> "none"]

\* A tool result with isError: true; the HTTP status stays 200.
toolError(message) ==
  [http |-> 200, isError |-> TRUE, code |-> 0, id |-> "none", error |-> message]

\* reply.code(400) with the JSON-RPC error envelope.
badRequest(message) ==
  [http |-> 400, isError |-> FALSE, code |-> -32000, id |-> "null", error |-> message]

\* get_response: the id asked for and the waitForResponse call made for it.
NoGet == [messageId |-> Null, call |-> NoCall]

\* ==================================================================== Init
\* The store is a file that outlives the process and nothing resets clients.status
\* at startup, so a row may still say online from a run that ended without its
\* onClose hook; the registry and the sessions map start empty.
BrokerInit ==
  /\ sessions = [s \in SessionIds |-> Absent]
  /\ nextSid = 1
  /\ activeSessions = [c \in Clients |-> Null]
  /\ clients \in [Clients -> {[status |-> "offline", session_id |-> Null],
                              [status |-> "online", session_id |-> Stale]}]
  /\ conversations = <<>>
  /\ messages = <<>>
  /\ message_queue = {}
  /\ invocations = <<>>
  /\ calls = <<>>
  /\ hookDrain = [s \in SessionIds |-> [target |-> NoClient, rest |-> <<>>]]
  /\ timerDrain = [target |-> 0, rest |-> <<>>]
  /\ now = 0
  /\ closed = FALSE
  /\ reply = NoReply
  /\ gets = NoGet
  /\ req = NoRequest
  /\ dequeued = NoDequeue
  /\ context = NoContext
  /\ McpInit

\* ================================================================ transport
\* The session a POST /mcp with an initialize body opens for the identity
\* clientId: the transport calls onsessioninitialized, which starts the drain
\* for the client.
onsessioninitialized(clientId) ==
  /\ ~closed
  /\ nextSid <= MaxSessions
  /\ sessions' = [sessions EXCEPT ![nextSid] = clientId]
  /\ nextSid' = nextSid + 1
  /\ IF clientId # NoClient
       THEN LET tbl == updateClientStatus(clients, clientId, "online", nextSid)
                r == processQueueForTarget(messages, message_queue, tbl, clientId, now)
            IN /\ activeSessions' = setOnline(activeSessions, clientId, nextSid)
               /\ clients' = tbl
               /\ messages' = r.messages
               /\ message_queue' = r.queue
               /\ hookDrain' = [hookDrain EXCEPT ![nextSid] = [target |-> clientId, rest |-> r.rest]]
       ELSE UNCHANGED <<activeSessions, clients, messages, message_queue, hookDrain>>
  /\ UNCHANGED <<conversations, invocations, calls, timerDrain, now, closed, storeVars, toolVars, callVars>>

\* POST /mcp with an initialize body from a client whose identity is clientId.
InitSession(clientId) == onsessioninitialized(clientId) /\ UNCHANGED httpVars

\* POST /mcp with an initialize body: the identity is read off the request.
PostInitialize(r) == onsessioninitialized(identifyClient(r)) /\ req' = r

\* transport.onclose, from a DELETE or a dropped connection.
CloseSession(sid) ==
  /\ ~closed
  /\ sessions[sid] # Absent
  /\ IF sessions[sid] # NoClient
       THEN /\ activeSessions' = setOffline(activeSessions, sessions[sid])
            /\ clients' = setClientOffline(clients, sessions[sid])
       ELSE UNCHANGED <<activeSessions, clients>>
  /\ sessions' = [sessions EXCEPT ![sid] = Absent]
  /\ UNCHANGED <<nextSid, conversations, messages, message_queue, invocations, calls,
                 hookDrain, timerDrain, now, closed, storeVars, toolVars, httpVars, callVars>>

\* The hook's loop with a slip: the store is not told.
offlineNone(tbl, owners) == tbl

RECURSIVE offlineAll(_, _)
offlineAll(tbl, owners) ==
  IF owners = {} THEN tbl
  ELSE LET c == CHOOSE x \in owners : TRUE
       IN offlineAll(setClientOffline(tbl, c), owners \ {c})

\* The onClose hook: every session's owner offline, the map and the registry cleared.
Shutdown ==
  /\ ~closed
  /\ clients' = offlineAll(clients, {sessions[s] : s \in SessionIds} \ {Absent, NoClient})
  /\ sessions' = [s \in SessionIds |-> Absent]
  /\ activeSessions' = clear(activeSessions)
  /\ closed' = TRUE
  /\ UNCHANGED <<nextSid, conversations, messages, message_queue, invocations, calls,
                 hookDrain, timerDrain, now, storeVars, toolVars, httpVars, callVars>>

\* ============================================================= tool calls
\* send_message with a slip: the conversation is created before the call is
\* refused.
SendMessageRejectedLate(sid, target, conversationId) ==
  /\ ~closed
  /\ sessions[sid] \in Clients
  /\ target = sessions[sid]
  /\ conversations' = createConversation(conversations, sessions[sid])
  /\ reply' = toolError("Cannot send message to self")
  /\ UNCHANGED <<sessions, nextSid, activeSessions, clients, messages, message_queue,
                 invocations, calls, hookDrain, timerDrain, now, closed, storeVars, gets, httpVars, callVars>>

\* send_message refused: no identity, a message to oneself, or an unknown
\* conversation_id (Len + 1 stands for an id no conversation has).
SendMessageRejected(sid, target, conversationId) ==
  /\ ~closed
  /\ sessions[sid] # Absent
  /\ \/ sessions[sid] = NoClient
     \/ target = sessions[sid]
     \/ conversationId # Null /\ getConversation(conversations, conversationId) = {}
  /\ reply' = IF sessions[sid] = NoClient THEN toolError("Unknown client")
              ELSE IF target = sessions[sid] THEN toolError("Cannot send message to self")
              ELSE toolError("Error: Conversation not found")
  /\ UNCHANGED <<brokerVars, storeVars, gets, httpVars, callVars>>

\* dispatcher.sendMessage up to its first suspension, for a caller that passed
\* the tool's guards: conversation, message of the given type, route.
sendMessage(sid, target, priority, conversationId, wait, timeoutS, messageType) ==
  LET sender == sessions[sid]
      convs == IF conversationId = Null THEN createConversation(conversations, sender)
               ELSE conversations
      conv == IF conversationId = Null THEN Len(convs) ELSE conversationId
      msgs == createMessage(messages, conv, sender, target, messageType, Null)
      id == Len(msgs)
      targetOnline == isOnline(activeSessions, target)
      way == route(targetOnline, target)
      call == [NoCall EXCEPT !.targetOnline = targetOnline, !.waitForResponse = wait,
                             !.timeoutS = timeoutS]
  IN /\ ~closed
     /\ sender \in Clients
     /\ target # sender
     /\ conversationId = Null \/ getConversation(conversations, conversationId) # {}
     /\ Len(messages) + Reserved + (IF way = "invoke" THEN 2 ELSE 1) <= MaxMessages
     /\ conversations' = convs
     /\ CASE way = "deliver" ->
              /\ messages' = updateMessageStatus(msgs, id, "delivered", now)
              /\ calls' = Append(calls, finish(call, msgs, id, now))
              /\ UNCHANGED message_queue
          [] way = "invoke" ->
              /\ messages' = msgs
              /\ calls' = Append(calls, [call EXCEPT !.pc = "tierA"])
              /\ UNCHANGED message_queue
          [] way = "enqueue" ->
              /\ messages' = msgs
              /\ message_queue' = enqueueMessage(message_queue, id, target,
                                                 priorityMap(priority), dispatcherMaxAttempts, now)
              /\ calls' = Append(calls, finish(call, msgs, id, now))
     /\ UNCHANGED <<sessions, nextSid, activeSessions, clients, invocations, hookDrain,
                    timerDrain, now, closed, storeVars, toolVars, httpVars, callVars>>

\* send_message: a plain message.
SendMessage(sid, target, priority, conversationId, wait, timeoutS) ==
  sendMessage(sid, target, priority, conversationId, wait, timeoutS, "message")

\* delegate_research: a research_request of normal priority whose caller waits;
\* the timeout follows the depth asked for.
DelegateResearch(sid, target, conversationId, timeoutS) ==
  sendMessage(sid, target, "normal", conversationId, TRUE, timeoutS, "research_request")

\* request_review: a review_request of normal priority whose caller waits.
RequestReview(sid, target, conversationId, timeoutS) ==
  sendMessage(sid, target, "normal", conversationId, TRUE, timeoutS, "review_request")

\* ----------------------------------------------------------- invocations
createInvocation(invs, messageId) ==
  Append(invs, [target |-> "codex", message_id |-> messageId, status |-> "pending"])

updateInvocation(invs, id, status) == [invs EXCEPT ![id].status = status]

\* What execa can hand back to invokeCodexExec: a result (exit code, and whether
\* a response could be extracted from stdout), or an exception.
ExecOutcomes ==
  [thrown : {FALSE}, timedOut : {FALSE}, exitCode : {0, 1}, response : BOOLEAN]
    \cup [thrown : {TRUE}, timedOut : BOOLEAN, exitCode : {1}, response : {FALSE}]

\* execSuccess with a slip: the exit code is not looked at.
execSuccessUnlessThrown(res) == ~res.thrown

execSuccess(res) == ~res.thrown /\ res.exitCode = 0

\* execStatus with a slip: the catch branch leaves the row as it is.
execStatusUnlessThrown(res) ==
  IF res.thrown THEN "running"
  ELSE IF execSuccess(res) THEN "completed" ELSE "failed"

execStatus(res) ==
  IF res.thrown THEN (IF res.timedOut THEN "timeout" ELSE "failed")
  ELSE IF execSuccess(res) THEN "completed" ELSE "failed"

\* respond with a slip: the response keeps the original's sender and target.
respondUnswapped(msgs, id, t) ==
  updateMessageStatus(
    createMessage(msgs, msgs[id].conversation_id, msgs[id].sender, msgs[id].target,
                  getResponseType(msgs[id].message_type), id),
    id, "responded", t)

\* The response message of an inline tier and the original marked responded.
respond(msgs, id, t) ==
  updateMessageStatus(
    createMessage(msgs, msgs[id].conversation_id, msgs[id].target, msgs[id].sender,
                  getResponseType(msgs[id].message_type), id),
    id, "responded", t)

\* tryCodexMcpServer has returned: a response string, or null (disabled, failed,
\* or empty), and then invokeCodexExec runs up to its execa call.
TierAReturn(id, mcpResult) ==
  /\ ~closed
  /\ id \in DOMAIN calls
  /\ calls[id].pc = "tierA"
  /\ IF mcpResult = "response"
       THEN /\ messages' = respond(messages, id, now)
            /\ calls' = Append([calls EXCEPT ![id] =
                           finish([@ EXCEPT !.mcpResult = mcpResult, !.invoked = TRUE,
                                            !.invokedViaMcp = TRUE,
                                            !.response = Len(messages) + 1],
                                  messages, id, now)], NoCall)
            /\ UNCHANGED invocations
       ELSE /\ invocations' = updateInvocation(createInvocation(invocations, id),
                                               Len(invocations) + 1, "running")
            /\ calls' = [calls EXCEPT ![id].pc = "tierB", ![id].mcpResult = mcpResult,
                                      ![id].invocation = Len(invocations) + 1]
            /\ UNCHANGED messages
  /\ UNCHANGED <<sessions, nextSid, activeSessions, clients, conversations, message_queue,
                 hookDrain, timerDrain, now, closed, storeVars, toolVars, httpVars, callVars>>

\* execa has returned or thrown: the rest of invokeCodexExec, then of sendMessage.
TierBReturn(id, res) ==
  /\ ~closed
  /\ id \in DOMAIN calls
  /\ calls[id].pc = "tierB"
  /\ invocations' = updateInvocation(invocations, calls[id].invocation, execStatus(res))
  /\ IF res.response
       THEN /\ messages' = respond(messages, id, now)
            /\ calls' = Append([calls EXCEPT ![id] =
                           finish([@ EXCEPT !.invoked = TRUE, !.response = Len(messages) + 1],
                                  messages, id, now)], NoCall)
       ELSE /\ messages' = messages
            /\ calls' = [calls EXCEPT ![id] =
                           finish([@ EXCEPT !.invoked = TRUE,
                                            !.invocationError = ~execSuccess(res)],
                                  messages, id, now)]
  /\ UNCHANGED <<sessions, nextSid, activeSessions, clients, conversations, message_queue,
                 hookDrain, timerDrain, now, closed, storeVars, toolVars, httpVars, callVars>>

\* A sendMessage call wakes from its sleep in waitForResponse.
WaitPoll(id) ==
  /\ ~closed
  /\ id \in DOMAIN calls
  /\ calls[id].pc = "wait"
  /\ calls' = [calls EXCEPT ![id] = waitForResponse(@, messages, id, now)]
  /\ UNCHANGED <<sessions, nextSid, activeSessions, clients, conversations, messages,
                 message_queue, invocations, hookDrain, timerDrain, now, closed, storeVars, toolVars, httpVars, callVars>>

\* mark_message_read by the session's client, who is the message's target.
MarkMessageRead(sid, id) ==
  /\ ~closed
  /\ sessions[sid] \in Clients
  /\ getMessage(messages, id) # {}
  /\ messages[id].target = sessions[sid]
  /\ messages' = updateMessageStatus(messages, id, "read", now)
  /\ UNCHANGED <<sessions, nextSid, activeSessions, clients, conversations, message_queue,
                 invocations, calls, hookDrain, timerDrain, now, closed, storeVars, toolVars, httpVars, callVars>>

\* mark_message_read with a slip: the target test is missing.
MarkMessageReadByAnyone(sid, id) ==
  /\ ~closed
  /\ sessions[sid] \in Clients
  /\ getMessage(messages, id) # {}
  /\ messages[id].target # sessions[sid]
  /\ messages' = updateMessageStatus(messages, id, "read", now)
  /\ UNCHANGED <<sessions, nextSid, activeSessions, clients, conversations, message_queue,
                 invocations, calls, hookDrain, timerDrain, now, closed, storeVars, toolVars, httpVars, callVars>>

\* mark_message_read refused: no identity, no such message (Len + 1), or a caller
\* who is not the target.
MarkMessageReadRejected(sid, id) ==
  /\ ~closed
  /\ sessions[sid] # Absent
  /\ \/ sessions[sid] = NoClient
     \/ getMessage(messages, id) = {}
     \/ id \in DOMAIN messages /\ messages[id].target # sessions[sid]
  /\ reply' = IF sessions[sid] = NoClient THEN toolError("Unknown client")
              ELSE IF getMessage(messages, id) = {} THEN toolError("Message not found")
              ELSE toolError("Cannot mark message as read: not the target")
  /\ UNCHANGED <<brokerVars, storeVars, gets, httpVars, callVars>>

\* close_conversation by any session: the conversation becomes completed.
CloseConversation(sid, id) ==
  /\ ~closed
  /\ sessions[sid] # Absent
  /\ getConversation(conversations, id) # {}
  /\ conversations' = closeConversation(conversations, id, now)
  /\ UNCHANGED <<sessions, nextSid, activeSessions, clients, messages, message_queue,
                 invocations, calls, hookDrain, timerDrain, now, closed, storeVars, toolVars, httpVars, callVars>>

\* close_conversation refused: no such conversation (Len + 1).
CloseConversationRejected(sid, id) ==
  /\ ~closed
  /\ sessions[sid] # Absent
  /\ getConversation(conversations, id) = {}
  /\ reply' = toolError("Conversation not found")
  /\ UNCHANGED <<brokerVars, storeVars, gets, httpVars, callVars>>

\* get_response by any session, for any message id, up to its first sleep.
GetResponse(sid, messageId, timeoutS) ==
  /\ ~closed
  /\ sessions[sid] # Absent
  /\ gets.call.pc \in {"none", "done"}
  /\ gets' = [messageId |-> messageId,
              call |-> waitForResponse([NoCall EXCEPT !.timeoutS = timeoutS, !.startTime = now],
                                       messages, messageId, now)]
  /\ UNCHANGED <<brokerVars, storeVars, reply, httpVars, callVars>>

\* The get_response call wakes from its sleep in waitForResponse.
GetPoll ==
  /\ ~closed
  /\ gets.call.pc = "wait"
  /\ gets' = [gets EXCEPT !.call = waitForResponse(@, messages, gets.messageId, now)]
  /\ UNCHANGED <<brokerVars, storeVars, reply, httpVars, callVars>>

\* POST /mcp with a slip: a body that is not an initialize request opens a
\* session all the same.
BadPostOpensSession(sessionId, isInitializeRequest) ==
  /\ sessionId = Null
  /\ ~isInitializeRequest
  /\ InitSession(NoClient)

\* POST /mcp that is refused: a session id the map does not hold, or no session
\* id and a body that is not an initialize request.
BadPost(sessionId, isInitializeRequest) ==
  /\ ~closed
  /\ \/ sessionId # Null /\ sessions[sessionId] = Absent
     \/ sessionId = Null /\ ~isInitializeRequest
  /\ reply' = IF sessionId # Null THEN badRequest("Bad Request: Unknown mcp-session-id")
              ELSE badRequest("Bad Request: missing mcp-session-id and not an initialize request")
  /\ UNCHANGED <<brokerVars, storeVars, gets, httpVars, callVars>>

\* ========================================================= queue processor
\* The drain started by onsessioninitialized resumes with its next row.
HookStep(sid) ==
  /\ ~closed
  /\ hookDrain[sid].rest # <<>>
  /\ LET r == attemptDelivery(messages, message_queue, clients, hookDrain[sid].target,
                              Head(hookDrain[sid].rest), now)
     IN /\ messages' = r.messages
        /\ message_queue' = r.queue
  /\ hookDrain' = [hookDrain EXCEPT ![sid].rest = Tail(@)]
  /\ UNCHANGED <<sessions, nextSid, activeSessions, clients, conversations, invocations,
                 calls, timerDrain, now, closed, storeVars, toolVars, httpVars, callVars>>

\* setInterval fires processQueue, which starts with the first of CLIENTS.
TimerFire ==
  /\ ~closed
  /\ timerDrain.target = 0
  /\ LET r == processQueueForTarget(messages, message_queue, clients, CLIENTS[1], now)
     IN /\ messages' = r.messages
        /\ message_queue' = r.queue
        /\ timerDrain' = [target |-> 1, rest |-> r.rest]
  /\ UNCHANGED <<sessions, nextSid, activeSessions, clients, conversations, invocations,
                 calls, hookDrain, now, closed, storeVars, toolVars, httpVars, callVars>>

\* processQueue resumes: the next row of the snapshot, or the next of CLIENTS
\* once the snapshot is used up, or the end.
TimerStep ==
  /\ ~closed
  /\ timerDrain.target # 0
  /\ IF timerDrain.rest # <<>>
       THEN LET r == attemptDelivery(messages, message_queue, clients,
                                     CLIENTS[timerDrain.target], Head(timerDrain.rest), now)
            IN /\ messages' = r.messages
               /\ message_queue' = r.queue
               /\ timerDrain' = [timerDrain EXCEPT !.rest = Tail(@)]
       ELSE IF timerDrain.target < Len(CLIENTS)
         THEN LET r == processQueueForTarget(messages, message_queue, clients,
                                             CLIENTS[timerDrain.target + 1], now)
              IN /\ messages' = r.messages
                 /\ message_queue' = r.queue
                 /\ timerDrain' = [target |-> timerDrain.target + 1, rest |-> r.rest]
       ELSE /\ timerDrain' = [target |-> 0, rest |-> <<>>]
            /\ UNCHANGED <<messages, message_queue>>
  /\ UNCHANGED <<sessions, nextSid, activeSessions, clients, conversations, invocations,
                 calls, hookDrain, now, closed, storeVars, toolVars, httpVars, callVars>>

\* The five-minute cleanup interval.
Sweep ==
  /\ ~closed
  /\ message_queue' = clearExhaustedMessages(message_queue)
  /\ UNCHANGED <<sessions, nextSid, activeSessions, clients, conversations, messages,
                 invocations, calls, hookDrain, timerDrain, now, closed, storeVars, toolVars, httpVars, callVars>>

\* Time passes, baseDelay seconds at a time, as far as limit.
Advance(limit) ==
  /\ ~closed
  /\ now < limit
  /\ now' = now + baseDelay
  /\ UNCHANGED <<sessions, nextSid, activeSessions, clients, conversations, messages,
                 message_queue, invocations, calls, hookDrain, timerDrain, closed, storeVars, toolVars, httpVars, callVars>>

Tick == Advance(MaxTicks * baseDelay)

\* Some sendMessage call sleeps in waitForResponse with its timeout still ahead.
Waiting ==
  \E id \in DOMAIN calls :
    calls[id].pc = "wait" /\ now - calls[id].startTime < calls[id].timeoutS

\* Time passes for as long as a call is waiting for its timeout.
Elapse == Advance(IF Waiting THEN now + baseDelay ELSE MaxTicks * baseDelay)

\* ================================================= buildConversationContext
\* A message's content is text that nothing interprets: the text of message id.
contentOf(id) == <<"content", id>>

\* `[${m.sender}]: ${m.content}`
renderMessage(msgs, id) == <<"[", msgs[id].sender, "]: ", contentOf(id)>>

\* join("\n\n")
RECURSIVE joinLines(_)
joinLines(lines) ==
  IF lines = <<>> THEN <<>>
  ELSE IF Len(lines) = 1 THEN lines[1]
  ELSE lines[1] \o <<"\n\n">> \o joinLines(Tail(lines))

buildConversationContext(msgs, conversationId) ==
  LET ids == getConversationMessages(msgs, conversationId, contextLimit, 0)
  IN IF Len(ids) = 0 THEN <<>>
     ELSE joinLines([i \in DOMAIN ids |-> renderMessage(msgs, ids[i])])

\* The context sendMessage builds for a message to codex that is not online.
BuildContext(conversationId) ==
  /\ context' = [conversationId |-> conversationId,
                 text |-> buildConversationContext(messages, conversationId)]
  /\ UNCHANGED <<brokerVars, storeVars, toolVars, httpVars, dequeued, mcpVars>>

\* ========================================================= dequeueMessages
\* dequeueMessages(db, target, limit) called on the table as it stands: a
\* SELECT, which leaves every table as it was.
Dequeue(target, limit) ==
  /\ dequeued' = [target |-> target, limit |-> limit, at |-> now,
                  rows |-> dequeueMessages(message_queue, target, limit, now)]
  /\ UNCHANGED <<brokerVars, storeVars, toolVars, httpVars, context, mcpVars>>

\* ====================================================== InMemoryEventStore
\* Strings are sequences of characters.
StreamNames == {<<"a">>, <<"b">>}
UnknownStream == <<"z">>
EmptyString == <<>>

Digit == <<"0", "1", "2", "3", "4", "5", "6", "7", "8", "9">>

RECURSIVE toString(_)
toString(n) == IF n < 10 THEN <<Digit[n + 1]>> ELSE toString(n \div 10) \o <<Digit[(n % 10) + 1]>>

makeEventId(streamId, seq) == streamId \o <<":">> \o toString(seq)

\* eventId.indexOf(":"), or -1; positions count from 0.
indexOfColon(str) ==
  LET hits == {i \in DOMAIN str : str[i] = ":"}
  IN IF hits = {} THEN -1 ELSE (CHOOSE i \in hits : \A j \in hits : i <= j) - 1

parseStreamId(eventId) ==
  LET i == indexOfColon(eventId)
  IN IF i = -1 THEN EmptyString ELSE SubSeq(eventId, 1, i)

NoStream == [nextSeq |-> 0, events |-> <<>>, indexById |-> <<>>]

\* Map operations on indexById, a function from event ids to positions.
mapSet(f, k, v) == [x \in DOMAIN f \cup {k} |-> IF x = k THEN v ELSE f[x]]

mapDelete(f, k) == [x \in DOMAIN f \ {k} |-> f[x]]

mapSize(f) == Cardinality(DOMAIN f)

\* events.forEach((ev, idx) => indexById.set(ev.id, idx)) on a cleared map.
rebuildIndex(events) ==
  [id \in {events[i].id : i \in DOMAIN events} |->
     (CHOOSE i \in DOMAIN events : events[i].id = id) - 1]

\* while (events.length && events[0].ts < cutoff) { shift; indexById.delete }
RECURSIVE pruneExpired(_, _)
pruneExpired(s, cutoff) ==
  IF s.events # <<>> /\ Head(s.events).ts < cutoff
    THEN pruneExpired([s EXCEPT !.events = Tail(@),
                                !.indexById = mapDelete(@, Head(s.events).id)], cutoff)
  ELSE s

\* for (i < overflow) { shift; indexById.delete }
RECURSIVE dropHead(_, _)
dropHead(s, n) ==
  IF n = 0 THEN s
  ELSE dropHead([s EXCEPT !.events = Tail(@),
                          !.indexById = mapDelete(@, Head(s.events).id)], n - 1)

\* pruneStream with a slip: events are dropped and the index is left as it was.
pruneStreamKeepingIndex(s, t) ==
  LET a == pruneExpired(s, t - ttlMs)
      b == IF Len(a.events) > maxEventsPerStream
             THEN dropHead(a, Len(a.events) - maxEventsPerStream)
           ELSE a
  IN [b EXCEPT !.indexById = s.indexById]

pruneStream(s, t) ==
  LET a == pruneExpired(s, t - ttlMs)
      b == IF mapSize(a.indexById) # Len(a.events)
             THEN [a EXCEPT !.indexById = rebuildIndex(a.events)]
           ELSE a
  IN IF Len(b.events) > maxEventsPerStream
       THEN LET c == dropHead(b, Len(b.events) - maxEventsPerStream)
            IN [c EXCEPT !.indexById = rebuildIndex(c.events)]
     ELSE b

\* storeEvent with a slip: the sequence number is taken from the buffer's size.
storeEventBySize(s0, streamId, t) ==
  LET s1 == IF s0 = NoStream THEN [nextSeq |-> 1, events |-> <<>>, indexById |-> <<>>] ELSE s0
      s == pruneStream(s1, t)
      id == makeEventId(streamId, Len(s.events) + 1)
  IN [s EXCEPT !.nextSeq = Len(s.events) + 2,
               !.indexById = mapSet(@, id, Len(s.events)),
               !.events = Append(@, [id |-> id, ts |-> t])]

\* storeEvent on the stream's state (a fresh one when the stream is new).
storeEvent(s0, streamId, t) ==
  LET s1 == IF s0 = NoStream THEN [nextSeq |-> 1, events |-> <<>>, indexById |-> <<>>] ELSE s0
      s == pruneStream(s1, t)
      id == makeEventId(streamId, s.nextSeq)
  IN [s EXCEPT !.nextSeq = @ + 1,
               !.indexById = mapSet(@, id, Len(s.events)),
               !.events = Append(@, [id |-> id, ts |-> t])]

\* The ids that the loop of replayEventsAfter sends, from position i on.
RECURSIVE sendFrom(_, _)
sendFrom(events, i) ==
  IF i < Len(events) THEN <<events[i + 1].id>> \o sendFrom(events, i + 1) ELSE <<>>

\* replayEventsAfter: the stream state it leaves, what it sent and what it returns.
replayEventsAfter(strs, lastEventId, t) ==
  LET streamId == parseStreamId(lastEventId)
      nothing == [streams |-> strs, sent |-> <<>>, result |-> EmptyString]
  IN IF lastEventId = EmptyString THEN nothing
     ELSE IF streamId = EmptyString THEN nothing
     ELSE IF streamId \notin DOMAIN strs \/ strs[streamId] = NoStream THEN nothing
     ELSE LET s == pruneStream(strs[streamId], t)
              pruned == [strs EXCEPT ![streamId] = s]
          IN IF lastEventId \notin DOMAIN s.indexById
               THEN [streams |-> pruned, sent |-> <<>>, result |-> EmptyString]
             ELSE [streams |-> pruned,
                   sent |-> sendFrom(s.events, s.indexById[lastEventId] + 1),
                   result |-> streamId]

NoOutput == [op |-> "none", lastEventId |-> EmptyString, sent |-> <<>>, result |-> EmptyString]

StoreInit ==
  /\ streams = [n \in StreamNames |-> NoStream]
  /\ clock = 0
  /\ out = NoOutput

\* The transport stores an event of one of its streams.
StoreEvent(streamId) ==
  /\ streams[streamId].nextSeq <= MaxSeq
  /\ streams' = [streams EXCEPT ![streamId] = storeEvent(@, streamId, clock)]
  /\ out' = [NoOutput EXCEPT !.op = "store",
                              !.result = makeEventId(streamId, streams'[streamId].nextSeq - 1)]
  /\ UNCHANGED <<clock, brokerVars, toolVars, httpVars, callVars>>

\* The last-event-id values a client can present.
LastEventIds ==
  {EmptyString, <<"a">>, <<":">>}
    \cup {makeEventId(n, q) : n \in StreamNames \cup {UnknownStream}, q \in 1..(MaxSeq + 1)}

\* A client resumes with last-event-id: the whole call, whose sends are awaited
\* one by one while nothing else in it writes the store.
ReplayEventsAfter(lastEventId) ==
  /\ LET r == replayEventsAfter(streams, lastEventId, clock)
     IN /\ streams' = r.streams
        /\ out' = [op |-> "replay", lastEventId |-> lastEventId, sent |-> r.sent,
                   result |-> r.result]
  /\ UNCHANGED <<clock, brokerVars, toolVars, httpVars, callVars>>

ClockTick ==
  /\ clock < MaxClock
  /\ clock' = clock + 1
  /\ UNCHANGED <<streams, out, brokerVars, toolVars, httpVars, callVars>>

\* ========================================================== specifications
Init == BrokerInit /\ StoreInit

Next ==
  \/ \E c \in Clients \cup {NoClient} : InitSession(c)
  \/ \E sid \in SessionIds : CloseSession(sid)
  \/ Shutdown
  \/ \E sid \in SessionIds, target \in Clients, priority \in Priorities,
        conv \in 0..Len(conversations), wait \in BOOLEAN, timeoutS \in TimeoutsS :
        SendMessage(sid, target, priority, conv, wait, timeoutS)
  \/ \E id \in DOMAIN calls, mcpResult \in {"null", "response"} : TierAReturn(id, mcpResult)
  \/ \E id \in DOMAIN calls, o \in ExecOutcomes : TierBReturn(id, o)
  \/ \E id \in DOMAIN calls : WaitPoll(id)
  \/ \E sid \in SessionIds, id \in DOMAIN messages : MarkMessageRead(sid, id)
  \/ \E sid \in SessionIds : HookStep(sid)
  \/ TimerFire
  \/ TimerStep
  \/ Sweep
  \/ Tick

\* The broker: sessions, registry, store, dispatcher and queue processor, under
\* the requests that are accepted (the refused ones change nothing in it).
Spec == Init /\ [][Next]_vars

\* The broker with callers that do not wait for a response (wait_for_response
\* false, so no call ever polls).
LiveNext ==
  \/ \E c \in Clients \cup {NoClient} : InitSession(c)
  \/ \E sid \in SessionIds : CloseSession(sid)
  \/ Shutdown
  \/ \E sid \in SessionIds, target \in Clients, priority \in Priorities,
        conv \in 0..Len(conversations), timeoutS \in TimeoutsS :
        SendMessage(sid, target, priority, conv, FALSE, timeoutS)
  \/ \E id \in DOMAIN calls, mcpResult \in {"null", "response"} : TierAReturn(id, mcpResult)
  \/ \E id \in DOMAIN calls, o \in ExecOutcomes : TierBReturn(id, o)
  \/ \E sid \in SessionIds, id \in DOMAIN messages : MarkMessageRead(sid, id)
  \/ \E sid \in SessionIds : HookStep(sid)
  \/ TimerFire
  \/ TimerStep
  \/ Sweep
  \/ Tick

\* Its timers and resumed drains are scheduled: setInterval keeps firing
\* processQueue, and a suspended drain is resumed by the event loop.
LiveSpec ==
  /\ Init
  /\ [][LiveNext]_vars
  /\ WF_vars(TimerFire)
  /\ WF_vars(TimerStep)
  /\ \A sid \in SessionIds : WF_vars(HookStep(sid))

\* The tools and the POST route as a client sees them: accepted and refused
\* calls, and conversations being closed between the sends.
ToolNext ==
  \/ \E clientId \in Clients \cup {NoClient} : InitSession(clientId)
  \/ \E sid \in SessionIds : CloseSession(sid)
  \/ \E sid \in SessionIds, target \in Clients, conv \in 0..(Len(conversations) + 1) :
        SendMessageRejected(sid, target, conv)
  \/ \E sid \in SessionIds, target \in Clients, conv \in 0..Len(conversations),
        timeoutS \in TimeoutsS :
        SendMessage(sid, target, "normal", conv, FALSE, timeoutS)
  \/ \E id \in 1..MaxMessages, mcpResult \in {"response", "null"} : TierAReturn(id, mcpResult)
  \/ \E id \in 1..MaxMessages, res \in ExecOutcomes : TierBReturn(id, res)
  \/ \E sid \in SessionIds, id \in 1..MaxMessages : MarkMessageRead(sid, id)
  \/ \E sid \in SessionIds, id \in 1..(Len(messages) + 1) : MarkMessageReadRejected(sid, id)
  \/ \E sid \in SessionIds, id \in 1..(Len(conversations) + 1) : CloseConversation(sid, id)
  \/ \E sid \in SessionIds, id \in 1..(Len(conversations) + 1) : CloseConversationRejected(sid, id)
  \/ \E sessionId \in SessionIds \cup {Null}, isInitializeRequest \in BOOLEAN :
        BadPost(sessionId, isInitializeRequest)
  \/ \E sid \in SessionIds : HookStep(sid)

ToolSpec == Init /\ [][ToolNext]_vars

\* Callers that wait for a response (wait_for_response true). The sleep timers
\* of waitForResponse fire, time passes, and the tier calls that a send started
\* come back.
WaitNext ==
  \/ \E clientId \in Clients \cup {NoClient} : InitSession(clientId)
  \/ \E sid \in SessionIds : CloseSession(sid)
  \/ \E sid \in SessionIds, target \in Clients, priority \in Priorities,
        conv \in 0..Len(conversations), timeoutS \in TimeoutsS :
        SendMessage(sid, target, priority, conv, TRUE, timeoutS)
  \/ \E id \in 1..MaxMessages, mcpResult \in {"response", "null"} : TierAReturn(id, mcpResult)
  \/ \E id \in 1..MaxMessages, res \in ExecOutcomes : TierBReturn(id, res)
  \/ \E id \in 1..MaxMessages : WaitPoll(id)
  \/ \E sid \in SessionIds : HookStep(sid)
  \/ TimerFire
  \/ TimerStep
  \/ Elapse

WaitSpec ==
  /\ Init
  /\ [][WaitNext]_vars
  /\ \A id \in 1..MaxMessages : WF_vars(WaitPoll(id))
  /\ \A id \in 1..MaxMessages : WF_vars(\E mcpResult \in {"response", "null"} : TierAReturn(id, mcpResult))
  /\ \A id \in 1..MaxMessages : WF_vars(\E res \in ExecOutcomes : TierBReturn(id, res))
  /\ WF_vars(Elapse)

\* The three sending tools side by side: plain messages, research requests and
\* review requests, answered inline or not at all.
TypeNext ==
  \/ \E clientId \in Clients : InitSession(clientId)
  \/ \E sid \in SessionIds : CloseSession(sid)
  \/ \E sid \in SessionIds, target \in Clients, conv \in 0..Len(conversations),
        timeoutS \in TimeoutsS :
        SendMessage(sid, target, "normal", conv, FALSE, timeoutS)
  \/ \E sid \in SessionIds, target \in Clients, conv \in 0..Len(conversations),
        timeoutS \in TimeoutsS :
        DelegateResearch(sid, target, conv, timeoutS)
  \/ \E sid \in SessionIds, target \in Clients, conv \in 0..Len(conversations),
        timeoutS \in TimeoutsS :
        RequestReview(sid, target, conv, timeoutS)
  \/ \E id \in 1..MaxMessages, mcpResult \in {"response", "null"} : TierAReturn(id, mcpResult)
  \/ \E id \in 1..MaxMessages, res \in ExecOutcomes : TierBReturn(id, res)
  \/ \E id \in 1..MaxMessages : WaitPoll(id)
  \/ \E sid \in SessionIds : HookStep(sid)
  \/ Elapse

TypeSpec == Init /\ [][TypeNext]_vars

\* Sessions opened from requests that identify their client by header,
\* user-agent or query parameter, and closed again.
IdentifyNext ==
  \/ \E r \in Requests : PostInitialize(r)
  \/ \E sid \in SessionIds : CloseSession(sid)

IdentifySpec == Init /\ [][IdentifyNext]_vars


GetNext ==
  \/ \E clientId \in Clients \cup {NoClient} : InitSession(clientId)
  \/ \E sid \in SessionIds : CloseSession(sid)
  \/ \E sid \in SessionIds, target \in Clients, conv \in 0..Len(conversations),
        timeoutS \in TimeoutsS :
        SendMessage(sid, target, "normal", conv, FALSE, timeoutS)
  \/ \E id \in 1..MaxMessages, mcpResult \in {"response", "null"} : TierAReturn(id, mcpResult)
  \/ \E id \in 1..MaxMessages, res \in ExecOutcomes : TierBReturn(id, res)
  \/ \E sid \in SessionIds, id \in 1..(Len(messages) + 1), timeoutS \in TimeoutsS :
        GetResponse(sid, id, timeoutS)
  \/ GetPoll
  \/ \E sid \in SessionIds : HookStep(sid)
  \/ Tick

GetSpec == Init /\ [][GetNext]_vars

\* A run that starts on a store left by an earlier run: pending messages from
\* codex to claude with their queue rows, some of them retried before and all
\* due; claude's clients row offline or a stale online.
RetryAttempts == {0, 3, 4}

RetryInit ==
  /\ sessions = [s \in SessionIds |-> Absent]
  /\ nextSid = 1
  /\ activeSessions = [c \in Clients |-> Null]
  /\ \E st \in {[status |-> "offline", session_id |-> Null],
                 [status |-> "online", session_id |-> Stale]} :
       clients = [c \in Clients |->
                    IF c = "claude" THEN st ELSE [status |-> "offline", session_id |-> Null]]
  /\ conversations = createConversation(<<>>, "codex")
  /\ messages = [m \in 1..MaxQueued |->
                   [conversation_id |-> 1, sender |-> "codex", target |-> "claude",
                    message_type |-> "message", status |-> "pending",
                    response_to_id |-> Null, read_at |-> NoTime]]
  /\ \E a \in [1..MaxQueued -> RetryAttempts] :
       message_queue = {[id |-> m, message_id |-> m, target |-> "claude", priority |-> 0,
                         attempts |-> a[m], max_attempts |-> dispatcherMaxAttempts,
                         next_attempt |-> 0] : m \in 1..MaxQueued}
  /\ invocations = <<>>
  /\ calls = [m \in 1..MaxQueued |-> NoCall]
  /\ hookDrain = [s \in SessionIds |-> [target |-> NoClient, rest |-> <<>>]]
  /\ timerDrain = [target |-> 0, rest |-> <<>>]
  /\ now = 0
  /\ closed = FALSE
  /\ reply = NoReply
  /\ gets = NoGet
  /\ req = NoRequest
  /\ dequeued = NoDequeue
  /\ context = NoContext
  /\ McpInit
  /\ StoreInit

\* Two conversations between claude and codex with up to MaxHistory messages
\* in all, in any order of senders.
ContextInit ==
  /\ sessions = [s \in SessionIds |-> Absent]
  /\ nextSid = 1
  /\ activeSessions = [c \in Clients |-> Null]
  /\ clients = [c \in Clients |-> [status |-> "offline", session_id |-> Null]]
  /\ conversations = createConversation(createConversation(<<>>, "claude"), "codex")
  /\ \E n \in 0..MaxHistory : \E conv \in [1..n -> 1..2], from \in [1..n -> Clients] :
       messages = [m \in 1..n |->
                     [conversation_id |-> conv[m], sender |-> from[m],
                      target |-> IF from[m] = "claude" THEN "codex" ELSE "claude",
                      message_type |-> "message", status |-> "delivered",
                      response_to_id |-> Null, read_at |-> NoTime]]
  /\ message_queue = {}
  /\ invocations = <<>>
  /\ calls = [m \in DOMAIN messages |-> NoCall]
  /\ hookDrain = [s \in SessionIds |-> [target |-> NoClient, rest |-> <<>>]]
  /\ timerDrain = [target |-> 0, rest |-> <<>>]
  /\ now = 0
  /\ closed = FALSE
  /\ reply = NoReply
  /\ gets = NoGet
  /\ req = NoRequest
  /\ dequeued = NoDequeue
  /\ context = NoContext
  /\ McpInit
  /\ StoreInit

ContextNext == \E conversationId \in 1..2 : BuildContext(conversationId)

\* The context built for either conversation, over every short history.
ContextSpec == ContextInit /\ [][ContextNext]_vars

McpNext ==
  \/ \E c \in McpCallers : McpSend(c)
  \/ \E c \in McpCallers, ok \in BOOLEAN : McpStarted(c, ok)
  \/ \E c \in McpCallers, ok \in BOOLEAN : McpConnected(c, ok)
  \/ \E c \in McpCallers, tools \in {"codex", "other", "thrown"} : McpListed(c, tools)
  \/ \E c \in McpCallers, ok \in BOOLEAN : McpToolReturn(c, ok)
  \/ \E c \in McpCallers : McpClosed(c)
  \/ \E c \in McpCallers : McpReturn(c)

\* One dispatcher's CodexMcpClient under concurrent sendMessage calls.
McpSpec == Init /\ [][McpNext]_vars

\* The limits a direct dequeueMessages call is given.
DequeueLimits == 1..2

\* What a queue row may carry: the lowest or highest priority of priorityMap,
\* no attempt yet or all attempts used, due from the start or after one or two
\* delays.
RowShapes ==
  [priority : {0, 2}, attempts : {0, dispatcherMaxAttempts}, next_attempt : {0, baseDelay, 2 * baseDelay}]

\* Messages from codex to claude, all queued, with rows of every shape.
DequeueInit ==
  /\ sessions = [s \in SessionIds |-> Absent]
  /\ nextSid = 1
  /\ activeSessions = [c \in Clients |-> Null]
  /\ clients = [c \in Clients |-> [status |-> "offline", session_id |-> Null]]
  /\ conversations = createConversation(<<>>, "codex")
  /\ messages = [m \in 1..MaxQueued |->
                   [conversation_id |-> 1, sender |-> "codex", target |-> "claude",
                    message_type |-> "message", status |-> "pending",
                    response_to_id |-> Null, read_at |-> NoTime]]
  /\ \E shape \in [1..MaxQueued -> RowShapes] :
       message_queue = {[id |-> m, message_id |-> m, target |-> "claude",
                         priority |-> shape[m].priority, attempts |-> shape[m].attempts,
                         max_attempts |-> dispatcherMaxAttempts,
                         next_attempt |-> shape[m].next_attempt] : m \in 1..MaxQueued}
  /\ invocations = <<>>
  /\ calls = [m \in 1..MaxQueued |-> NoCall]
  /\ hookDrain = [s \in SessionIds |-> [target |-> NoClient, rest |-> <<>>]]
  /\ timerDrain = [target |-> 0, rest |-> <<>>]
  /\ now = 0
  /\ closed = FALSE
  /\ reply = NoReply
  /\ gets = NoGet
  /\ req = NoRequest
  /\ dequeued = NoDequeue
  /\ context = NoContext
  /\ McpInit
  /\ StoreInit

DequeueNext ==
  \/ \E target \in Clients, limit \in DequeueLimits : Dequeue(target, limit)
  \/ Tick

\* dequeueMessages asked for either client with a small limit, at two times.
DequeueSpec == DequeueInit /\ [][DequeueNext]_vars

\* claude comes and goes while the two drains and the sweep run.
RetryNext ==
  \/ InitSession("claude")
  \/ \E sid \in SessionIds : CloseSession(sid)
  \/ \E sid \in SessionIds : HookStep(sid)
  \/ TimerFire
  \/ TimerStep
  \/ Sweep
  \/ Advance(MaxRetryTicks * baseDelay)

\* The queue processor on a queue with history; both intervals keep firing and
\* suspended drains are resumed.
RetrySpec ==
  /\ RetryInit
  /\ [][RetryNext]_vars
  /\ WF_vars(TimerFire)
  /\ WF_vars(TimerStep)
  /\ WF_vars(Sweep)
  /\ \A sid \in SessionIds : WF_vars(HookStep(sid))

EventNext ==
  \/ \E n \in StreamNames : StoreEvent(n)
  \/ \E id \in LastEventIds : ReplayEventsAfter(id)
  \/ ClockTick

EventInit == Init /\ \A c \in Clients : ~isClientOnline(clients, c)

\* One session's event store under store, replay and the passing of time.
EventSpec == EventInit /\ [][EventNext]_vars

\* ================================================================== claims
EntriesOf(q, m) == {e \in q : e.message_id = m}

InvocationsOf(invs, m) == {i \in DOMAIN invs : invs[i].message_id = m}

ResponsesTo(msgs, m) == {r \in DOMAIN msgs : msgs[r].response_to_id = m}

\* The messages a sendMessage call has just created in this step.
Created == {m \in DOMAIN calls' : m \notin DOMAIN calls /\ calls'[m].pc # "none"}

\* -------------------------------------------------------------------- C1
\* C1: when sendMessage routes while the registry says the target is online,
\* the message it created is delivered at the end of that step, and there is
\* never a queue entry or an invocation for that message.
C1_OnlineTargetDelivered ==
  [][/\ \A m \in Created :
          calls'[m].targetOnline => messages'[m].status = "delivered"
     /\ \A m \in DOMAIN calls' :
          calls'[m].targetOnline =>
            /\ EntriesOf(message_queue', m) = {}
            /\ InvocationsOf(invocations', m) = {}]_vars

\* A message sent to an online target: delivered, nothing queued, nothing invoked.
C1_Witness ==
  \E m \in DOMAIN calls :
    /\ calls[m].targetOnline
    /\ calls[m].pc = "done"
    /\ messages[m].status = "delivered"
    /\ EntriesOf(message_queue, m) = {}
    /\ InvocationsOf(invocations, m) = {}

\* -------------------------------------------------------------------- C2
ExpectedPriority(label) == IF label = "urgent" THEN 2 ELSE IF label = "high" THEN 1 ELSE 0

\* C2: a sendMessage step to claude while the registry says claude is offline
\* inserts exactly one queue entry for the new message, with target claude,
\* attempts 0, max_attempts 5 and priority 2, 1, 0 for urgent, high, normal,
\* and leaves the message pending.
C2_OfflineClaudeEnqueued ==
  [][\A sid \in SessionIds, label \in Priorities, conv \in 0..Len(conversations),
       wait \in BOOLEAN, timeoutS \in TimeoutsS :
       (/\ ~isOnline(activeSessions, "claude")
        /\ sessions[sid] = "codex"
        /\ SendMessage(sid, "claude", label, conv, wait, timeoutS))
       => LET m == Len(messages')
              es == EntriesOf(message_queue', m)
          IN /\ Cardinality(es) = 1
             /\ Cardinality(message_queue') = Cardinality(message_queue) + 1
             /\ \A e \in es : /\ e.target = "claude"
                              /\ e.attempts = 0
                              /\ e.max_attempts = 5
                              /\ e.priority = ExpectedPriority(label)
             /\ messages'[m].status = "pending"]_vars

\* An urgent message to offline claude sits in the queue, untouched.
C2_Witness ==
  \E e \in message_queue :
    /\ e.target = "claude"
    /\ e.priority = 2
    /\ e.attempts = 0
    /\ e.max_attempts = 5
    /\ ~calls[e.message_id].targetOnline
    /\ messages[e.message_id].status = "pending"

\* -------------------------------------------------------------------- C3
\* The step is a tier of the call for message id handing back a response.
TierResponds(id) ==
  \/ TierAReturn(id, "response")
  \/ \E res \in ExecOutcomes : res.response /\ TierBReturn(id, res)

\* C3: for a message to offline codex, the exec tier is started (its invocation
\* exists) only once the peer-client tier has returned null; and a step in
\* which either tier hands back a response creates exactly one response message,
\* from codex to the original sender with response_to_id the original id, and
\* makes the original responded.
C3_TiersInOrderAndOneResponse ==
  [][/\ \A i \in DOMAIN invocations' :
          calls'[invocations'[i].message_id].mcpResult = "null"
     /\ \A id \in DOMAIN calls :
          /\ calls'[id].pc = "tierB" => calls'[id].mcpResult = "null"
          /\ TierResponds(id) =>
               LET r == Len(messages')
               IN /\ Len(messages') = Len(messages) + 1
                  /\ ResponsesTo(messages', id) = {r}
                  /\ messages'[r].sender = "codex"
                  /\ messages'[r].target = messages[id].sender
                  /\ messages'[r].response_to_id = id
                  /\ messages'[id].status = "responded"]_vars

\* The exec tier answered after the peer-client tier had returned null.
C3_Witness ==
  \E m \in DOMAIN calls :
    /\ calls[m].mcpResult = "null"
    /\ InvocationsOf(invocations, m) # {}
    /\ calls[m].response # Null
    /\ messages[calls[m].response].response_to_id = m
    /\ messages[m].status = "responded"

\* -------------------------------------------------------------------- C4
\* Message m has a queue entry for claude that is due and not exhausted.
DueEntry(m) ==
  \E e \in EntriesOf(message_queue, m) :
    /\ e.target = "claude"
    /\ e.next_attempt <= now
    /\ e.attempts < e.max_attempts

DeliveredFromQueue(m) ==
  /\ EntriesOf(message_queue, m) = {}
  /\ messages[m].status = "delivered"

\* C4: if claude has a due, unexhausted queue entry and has initialised a
\* session, then, unless claude goes offline, the entry is eventually removed
\* and its message is delivered.
C4_DueEntryEventuallyDelivered ==
  \A m \in 1..MaxMessages :
    (m \in DOMAIN messages /\ DueEntry(m) /\ isOnline(activeSessions, "claude"))
      ~> ((m \in DOMAIN messages /\ DeliveredFromQueue(m))
          \/ ~isOnline(activeSessions, "claude"))

\* A message that was queued for offline claude, delivered with claude online.
C4_Witness ==
  \E m \in DOMAIN calls :
    /\ calls[m].pc # "none"
    /\ messages[m].target = "claude"
    /\ ~calls[m].targetOnline
    /\ DeliveredFromQueue(m)
    /\ isOnline(activeSessions, "claude")

\* -------------------------------------------------------------------- C5
Rank(status) ==
  CASE status = "pending" -> 0 [] status = "delivered" -> 1
    [] status = "read" -> 2 [] status = "responded" -> 3

\* C5: no step moves a message's status to an earlier value in the order
\* pending < delivered < read < responded.
C5_StatusNeverMovesBack ==
  [][\A m \in DOMAIN messages :
       Rank(messages'[m].status) >= Rank(messages[m].status)]_vars

C7_RegistryMatchesSessions ==
  \A a \in Clients :
    isOnline(activeSessions, a) <=> (\E s \in SessionIds : sessions[s] = a)

\* -------------------------------------------------------------------- C8
\* C8: a step that marks a queued message delivered and removes its entry is
\* taken only while the registry says the entry's target is online.
C8_DrainDeliversOnlyToRegistryOnline ==
  [][\A e \in message_queue :
       (/\ EntriesOf(message_queue', e.message_id) = {}
        /\ e.message_id \in DOMAIN messages
        /\ messages[e.message_id].status # "delivered"
        /\ messages'[e.message_id].status = "delivered")
       => isOnline(activeSessions', e.target)]_vars

\* ------------------------------------------------------------------- C11
\* The row of q with rowid id.
RowsOf(q, id) == {e \in q : e.id = id}

Exhausted(e) == e.attempts >= e.max_attempts

C13_OnlyTargetMarksRead ==
  /\ [][\A sid \in SessionIds, id \in DOMAIN messages :
          (/\ sessions[sid] \in Clients
           /\ messages[id].target # sessions[sid]
           /\ MarkMessageReadRejected(sid, id))
            => /\ reply'.isError
               /\ messages'[id].status = messages[id].status
               /\ messages'[id].read_at = messages[id].read_at]_vars
  /\ [][\A id \in DOMAIN messages :
          (\/ messages'[id].status = "read" /\ messages[id].status # "read"
           \/ messages'[id].read_at # messages[id].read_at)
            => \E sid \in SessionIds : sessions[sid] = messages[id].target]_vars

\* A non-target has been refused, and a target has marked a message read.
C13_Witness ==
  /\ reply = toolError("Cannot mark message as read: not the target")
  /\ \E id \in DOMAIN messages : messages[id].status = "read" /\ messages[id].read_at # NoTime

\* -------------------------------------------------------------------- C14
\* The get_response call returns in this step.
GetReturns == gets' # gets /\ gets'.call.pc = "done"

\* C14: what get_response(m, t) returns is either the earliest message whose
\* response_to_id is m, or null; it is null only once the timeout has expired,
\* and a poll made within the timeout while a response to m is stored returns
\* it. A message that responds to another id is never returned.
C14_GetResponseReturnsEarliestOrNull ==
  [][GetReturns =>
       LET m == gets'.messageId
           r == gets'.call.response
       IN /\ r # Null =>
               /\ r \in ResponsesTo(messages, m)
               /\ \A o \in ResponsesTo(messages, m) : r <= o
          /\ r = Null =>
               /\ gets.call.pc = "wait"
               /\ now - gets.call.startTime >= gets.call.timeoutS
          /\ (/\ gets.call.pc = "wait"
              /\ now - gets.call.startTime < gets.call.timeoutS
              /\ ResponsesTo(messages, m) # {}) => r # Null]_vars

\* get_response has returned the response to the message it was asked about.
C14_Witness ==
  /\ gets.call.pc = "done"
  /\ gets.call.response # Null
  /\ messages[gets.call.response].response_to_id = gets.messageId

\* get_response has returned null after its timeout.
C14_WitnessTimeout ==
  /\ gets.call.pc = "done"
  /\ gets.call.response = Null
  /\ gets.messageId \in DOMAIN messages

\* -------------------------------------------------------------------- C15
\* C15: when the session of an identified assistant closes, in the state after
\* the close handler the session is not in the sessions map, the registry says
\* the assistant is offline, and its clients row is offline with no session_id.
C15_ClosedSessionLeavesOwnerOffline ==
  [][\A sid \in SessionIds :
       (sessions[sid] \in Clients /\ CloseSession(sid))
         => /\ sessions'[sid] = Absent
            /\ ~isOnline(activeSessions', sessions[sid])
            /\ clients'[sessions[sid]] = [status |-> "offline", session_id |-> Null]]_vars

\* One of two live sessions of an assistant has closed: the registry and the
\* store say offline while the other session is still in the map.
C15_Witness ==
  \E sid \in SessionIds :
    /\ sessions[sid] \in Clients
    /\ ~isOnline(activeSessions, sessions[sid])
    /\ clients[sessions[sid]] = [status |-> "offline", session_id |-> Null]

C17_BadPostAnswered400 ==
  [][\A sessionId \in SessionIds \cup {Null}, isInitializeRequest \in BOOLEAN :
       BadPost(sessionId, isInitializeRequest)
         => /\ reply'.http = 400 /\ reply'.code = -32000 /\ reply'.id = "null"
            /\ UNCHANGED <<sessions, nextSid, activeSessions>>
            /\ UNCHANGED <<clients, conversations, messages, message_queue, invocations>>]_vars

\* A POST under the id of a session that has been closed was refused while another
\* session is live.
C17_Witness ==
  /\ reply = badRequest("Bad Request: Unknown mcp-session-id")
  /\ \E sid, other \in SessionIds :
       sid < nextSid /\ sessions[sid] = Absent /\ sessions[other] # Absent

\* -------------------------------------------------------------------- C18
\* C18: a send_message that is refused (the caller has no identity, the target is
\* the sender, or the conversation_id names no conversation) answers with
\* isError true and creates no conversation, message, queue entry or invocation.
C18_RejectedSendCreatesNothing ==
  [][\A sid \in SessionIds, target \in Clients, conv \in 0..(Len(conversations) + 1) :
       SendMessageRejected(sid, target, conv)
         => /\ reply'.isError
            /\ UNCHANGED <<conversations, messages, message_queue, invocations>>]_vars

\* A send under an unknown conversation_id was refused while a conversation and
\* a message exist.
C18_Witness ==
  /\ reply = toolError("Error: Conversation not found")
  /\ Len(conversations) > 0
  /\ Len(messages) > 0

\* -------------------------------------------------------------------- C20
\* C20: every message that send_message creates is created in a conversation
\* that is active at that moment; a send_message that names a completed or
\* archived conversation creates no message.
C20_MessagesOnlyInActiveConversations ==
  [][\A m \in Created : conversations'[messages'[m].conversation_id].status = "active"]_vars

\* -------------------------------------------------------------------- C19
\* A sendMessage call that has not returned yet.
Pending(id) == id \in DOMAIN calls /\ calls[id].pc \in {"tierA", "tierB", "wait"}

Returned(id) == id \in DOMAIN calls /\ calls[id].pc = "done"

\* C19: a send_message with wait_for_response true always returns, its tier
\* calls having come back; a wait loop that ends on its timeout, no response to
\* the message being stored, returns with response null and without an error.
C19_WaitingSendReturns ==
  /\ \A id \in 1..MaxMessages : Pending(id) ~> Returned(id)
  /\ [][\A id \in DOMAIN calls :
          (calls[id].pc = "wait" /\ WaitPoll(id)
           /\ now - calls[id].startTime >= calls[id].timeoutS)
            => /\ calls'[id].pc = "done"
               /\ calls'[id].response = Null
               /\ reply' = reply]_vars

\* A call that waited has returned on its timeout, without a response.
C19_Witness ==
  \E id \in DOMAIN calls :
    /\ calls[id].pc = "done"
    /\ calls[id].response = Null
    /\ ResponsesTo(messages, id) = {}
    /\ now >= baseDelay

\* -------------------------------------------------------------------- C21
\* C21: in the step that initialises a session for an identified assistant, the
\* registry holds that assistant online under the new session once the drain for
\* it has started: a drain started by the initialisation callback never leaves
\* the registry saying offline for the assistant it drains.
C21_RegistryOnlineWhenDrainStarts ==
  [][nextSid' # nextSid =>
       LET clientId == sessions'[nextSid]
       IN clientId \in Clients =>
            /\ isOnline(activeSessions', clientId)
            /\ getSessionId(activeSessions', clientId) = nextSid
            /\ hookDrain'[nextSid].target = clientId]_vars

\* A drain started at initialisation has delivered a row and holds another,
\* with the registry saying online under that session.
C21_Witness ==
  \E sid \in SessionIds :
    /\ sessions[sid] \in Clients
    /\ hookDrain[sid].target = sessions[sid]
    /\ hookDrain[sid].rest # <<>>
    /\ getSessionId(activeSessions, sessions[sid]) = sid
    /\ \E m \in DOMAIN messages :
         messages[m].target = sessions[sid] /\ messages[m].status = "delivered"

\* -------------------------------------------------------------------- C22
\* The buffer holds at most maxEventsPerStream events, none older than ttlMs at t.
WithinPolicy(s, t) ==
  /\ Len(s.events) <= maxEventsPerStream
  /\ \A i \in DOMAIN s.events : s.events[i].ts >= t - ttlMs

\* C22: when a store or a replay_after call returns, the buffer of the stream it
\* worked on holds at most max_events_per_stream events and no event older than
\* ttl_ms at the time of the call.
C22_BufferWithinPolicyAfterCalls ==
  /\ [][\A n \in StreamNames : StoreEvent(n) => WithinPolicy(streams'[n], clock)]_vars
  /\ [][\A id \in LastEventIds :
          (ReplayEventsAfter(id) /\ parseStreamId(id) \in StreamNames)
            => WithinPolicy(streams'[parseStreamId(id)], clock)]_vars

\* -------------------------------------------------------------------- C23
\* The sequence number the next store on this stream will use.
NextSeqOf(s) == IF s = NoStream THEN 1 ELSE s.nextSeq

\* C23: within a stream, store hands out the sequence numbers 1, 2, 3, ... in
\* call order: the id it returns is "<stream>:<seq>" with seq one more than the
\* previous store's on that stream, the counter never goes back, and every
\* retained event carries a number already handed out, in increasing order, so
\* that no id is issued twice even after pruning.
C23_SequenceNumbersIncrease ==
  /\ [][\A n \in StreamNames :
          StoreEvent(n) =>
            /\ out'.result = makeEventId(n, NextSeqOf(streams[n]))
            /\ NextSeqOf(streams'[n]) = NextSeqOf(streams[n]) + 1]_vars
  /\ [][\A n \in StreamNames : NextSeqOf(streams'[n]) >= NextSeqOf(streams[n])]_vars
  /\ [](\A n \in StreamNames : \A i \in DOMAIN streams[n].events :
          \E q \in 1..(streams[n].nextSeq - 1) :
            /\ streams[n].events[i].id = makeEventId(n, q)
            /\ \A j \in DOMAIN streams[n].events :
                 j < i => \E p \in 1..(q - 1) : streams[n].events[j].id = makeEventId(n, p))

\* A store has returned an id whose number is larger than the number of events
\* the buffer holds: earlier events have been pruned and their numbers not reused.
C23_Witness ==
  /\ out.op = "store"
  /\ \E n \in StreamNames :
       /\ streams[n].nextSeq > 2
       /\ out.result = makeEventId(n, streams[n].nextSeq - 1)
       /\ Len(streams[n].events) < streams[n].nextSeq - 1

\* -------------------------------------------------------------------- C24
\* C24: read_at of a message is set once: a read_at that has been set is not
\* changed by any later operation, a repeated mark_message_read included.
C24_ReadAtSetOnce ==
  [][\A id \in DOMAIN messages :
       messages[id].read_at # NoTime => messages'[id].read_at = messages[id].read_at]_vars

\* -------------------------------------------------------------------- C25
\* C25: in every state a conversation's closed_at is set exactly when its status
\* is completed or archived; close_conversation on an existing conversation
\* leaves it completed with closed_at set, and on an unknown id answers with an
\* error and changes no conversation.
C25_ClosedAtIffClosed ==
  /\ [](\A c \in DOMAIN conversations :
          conversations[c].closed_at # NoTime
            <=> conversations[c].status \in {"completed", "archived"})
  /\ [][\A sid \in SessionIds, id \in DOMAIN conversations :
          CloseConversation(sid, id)
            => /\ conversations'[id].status = "completed"
               /\ conversations'[id].closed_at = now
               /\ \A o \in DOMAIN conversations \ {id} : conversations'[o] = conversations[o]]_vars
  /\ [][\A sid \in SessionIds :
          CloseConversationRejected(sid, Len(conversations) + 1)
            => reply'.isError /\ conversations' = conversations]_vars

\* One conversation has been closed, and a close under an unknown id refused.
C25_Witness ==
  /\ reply = toolError("Conversation not found")
  /\ \E c \in DOMAIN conversations :
       conversations[c].status = "completed" /\ conversations[c].closed_at # NoTime

\* -------------------------------------------------------------------- C26
\* The one-shot exec failed: it threw, or it ended with a non-zero exit code.
ExecFailed(res) == res.thrown \/ res.exitCode # 0

\* C26: when the exec of an offline-codex send comes back, invocation_error is
\* set exactly when the exec failed and no response could be extracted; when a
\* response was extracted, also from a failed exec, the response message is
\* created, the original becomes responded and no invocation_error is set. In
\* every state a call with invocation_error has a failed or timed-out
\* invocation and no response.
C26_InvocationErrorOnlyWithoutResponse ==
  /\ [][\A id \in DOMAIN calls, res \in ExecOutcomes :
          TierBReturn(id, res) =>
            /\ calls'[id].invocationError <=> (ExecFailed(res) /\ ~res.response)
            /\ res.response =>
                 /\ Len(messages') = Len(messages) + 1
                 /\ messages'[Len(messages')].response_to_id = id
                 /\ calls'[id].response = Len(messages')
                 /\ messages'[id].status = "responded"
            /\ ~res.response => Len(messages') = Len(messages)]_vars
  /\ [](\A id \in DOMAIN calls :
          calls[id].invocationError =>
            /\ ResponsesTo(messages, id) = {}
            /\ \E i \in InvocationsOf(invocations, id) :
                 invocations[i].status \in {"failed", "timeout"})

\* An exec that ended with a non-zero exit code and an extractable response: the
\* invocation is failed, the message responded, and no invocation_error.
C26_Witness ==
  \E id \in DOMAIN calls :
    /\ ~calls[id].invocationError
    /\ calls[id].response # Null
    /\ messages[id].status = "responded"
    /\ \E i \in InvocationsOf(invocations, id) : invocations[i].status = "failed"

\* An exec that failed without a response: invocation_error is set.
C26_WitnessError ==
  \E id \in DOMAIN calls :
    calls[id].pc = "done" /\ calls[id].invocationError /\ calls[id].response = Null

\* -------------------------------------------------------------------- C27
\* The type a response to a request of this type must have.
ResponseTypeFor(requestType) ==
  IF requestType = "research_request" THEN "research_response"
  ELSE IF requestType = "review_request" THEN "review_response"
  ELSE "message"

\* C27: every research_response or review_response answers a research_request
\* or review_request respectively, in the same conversation and with sender and
\* target swapped; a response to a request of any other type has type message.
C27_ResponseTypeMatchesRequest ==
  /\ \A r \in DOMAIN messages :
       messages[r].message_type \in {"research_response", "review_response"}
         => messages[r].response_to_id \in DOMAIN messages
  /\ \A r \in DOMAIN messages :
       messages[r].response_to_id # Null =>
         LET q == messages[messages[r].response_to_id]
         IN /\ messages[r].message_type = ResponseTypeFor(q.message_type)
            /\ messages[r].conversation_id = q.conversation_id
            /\ messages[r].sender = q.target
            /\ messages[r].target = q.sender

\* A research request has been answered with a research response.
C27_Witness ==
  \E r \in DOMAIN messages :
    /\ messages[r].message_type = "research_response"
    /\ messages[r].response_to_id # Null
    /\ messages[messages[r].response_to_id].message_type = "research_request"

\* A plain message has been answered with a plain message.
C27_WitnessMessage ==
  \E r \in DOMAIN messages :
    /\ messages[r].response_to_id # Null
    /\ messages[r].message_type = "message"

\* -------------------------------------------------------------------- C28
\* C28: every queue entry references an existing message whose sender differs
\* from its target, and no two queue entries reference the same message.
C28_QueueEntriesReferenceMessages ==
  /\ \A e \in message_queue :
       /\ e.message_id \in DOMAIN messages
       /\ messages[e.message_id].sender # messages[e.message_id].target
  /\ \A a \in message_queue, b \in message_queue :
       a.message_id = b.message_id => a = b

\* Two messages wait in the queue.
C28_Witness ==
  \E a \in message_queue, b \in message_queue : a.message_id # b.message_id

\* A message is still queued after a retry was scheduled for it.
C28_WitnessRetried ==
  \E e \in message_queue : e.attempts > 0 /\ e.message_id \in DOMAIN messages

\* -------------------------------------------------------------------- C29
\* What each source of identity says on its own, NoClient when it says nothing.
HeaderSays(r) ==
  IF r.xClientId = <<claudeLiteral>> THEN "claude"
  ELSE IF r.xClientId = <<codexLiteral>> THEN "codex"
  ELSE NoClient

UserAgentSays(r) ==
  IF r.userAgent = <<>> THEN NoClient
  ELSE IF includes(r.userAgent[1], claudeCodePattern) \/ includes(r.userAgent[1], ClaudePattern)
         THEN "claude"
  ELSE IF includes(r.userAgent[1], codexLiteral) \/ includes(r.userAgent[1], CodexPattern)
         THEN "codex"
  ELSE NoClient

QuerySays(r) ==
  IF r.client = <<claudeLiteral>> THEN "claude"
  ELSE IF r.client = <<codexLiteral>> THEN "codex"
  ELSE NoClient

\* C29: the session opened by an initialize request gets the identity of the
\* first source that names one, in the order x-client-id header, user-agent,
\* client query parameter: a header of claude or codex wins over any
\* user-agent and query value, a user-agent match wins over the query value,
\* and when none matches the session has no identity.
C29_IdentityByFirstHit ==
  [][nextSid' # nextSid =>
       LET r == req'
           id == sessions'[nextSid]
       IN /\ HeaderSays(r) # NoClient => id = HeaderSays(r)
          /\ HeaderSays(r) = NoClient /\ UserAgentSays(r) # NoClient => id = UserAgentSays(r)
          /\ HeaderSays(r) = NoClient /\ UserAgentSays(r) = NoClient => id = QuerySays(r)]_vars

\* A session opened as codex by its header although user-agent and query both
\* say claude.
C29_Witness ==
  /\ nextSid > 1
  /\ sessions[nextSid - 1] = "codex"
  /\ HeaderSays(req) = "codex"
  /\ UserAgentSays(req) = "claude"
  /\ QuerySays(req) = "claude"

\* A session opened as claude by its user-agent although the query says codex.
C29_WitnessUserAgent ==
  /\ nextSid > 1
  /\ sessions[nextSid - 1] = "claude"
  /\ HeaderSays(req) = NoClient /\ req.xClientId # <<>>
  /\ UserAgentSays(req) = "claude"
  /\ QuerySays(req) = "codex"

\* A session opened by the query parameter alone, and one without identity.
C29_WitnessQuery ==
  /\ nextSid > 1
  /\ sessions[nextSid - 1] = "codex"
  /\ HeaderSays(req) = NoClient /\ UserAgentSays(req) = NoClient
  /\ req.userAgent # <<>>

C29_WitnessNone ==
  /\ nextSid > 1
  /\ sessions[nextSid - 1] = NoClient
  /\ req.xClientId # <<>> /\ req.userAgent # <<>> /\ req.client # <<>>

\* -------------------------------------------------------------------- C30
\* The index holds exactly the ids of the retained events.
IndexHoldsRetainedIds(s) == DOMAIN s.indexById = {s.events[i].id : i \in DOMAIN s.events}

\* C30: after every store and every prune, the stream's index maps each
\* retained event id to that event's current position in the events list, and
\* contains no id of a dropped event.
C30_IndexMatchesBuffer ==
  \A n \in StreamNames :
    streams[n] # NoStream =>
      /\ IndexHoldsRetainedIds(streams[n])
      /\ \A i \in DOMAIN streams[n].events :
           streams[n].indexById[streams[n].events[i].id] = i - 1

\* The part of C30 that holds: no id of a dropped event stays in the index.
C30_IndexDomain ==
  \A n \in StreamNames : streams[n] # NoStream => IndexHoldsRetainedIds(streams[n])

\* -------------------------------------------------------------------- C31
\* The rows of the queue the last dequeueMessages call could have returned.
Eligible ==
  {e \in message_queue : /\ e.target = dequeued.target
                         /\ e.next_attempt <= dequeued.at
                         /\ e.attempts < e.max_attempts}

\* Row a sorts strictly ahead of row b.
Ahead(a, b) ==
  \/ a.priority > b.priority
  \/ a.priority = b.priority /\ a.next_attempt < b.next_attempt

\* What the last call returned is the head of the due rows in their order.
ReturnedDueRowsInOrder ==
  dequeued # NoDequeue =>
    LET rows == dequeued.rows
        returned == {rows[i] : i \in DOMAIN rows}
    IN /\ returned \subseteq Eligible
       /\ Cardinality(returned) = Len(rows)
       /\ Len(rows) = IF Cardinality(Eligible) < dequeued.limit
                        THEN Cardinality(Eligible) ELSE dequeued.limit
       /\ \A i \in DOMAIN rows, j \in DOMAIN rows : i < j => ~Ahead(rows[j], rows[i])
       /\ \A e \in Eligible \ returned : \A i \in DOMAIN rows : ~Ahead(e, rows[i])

\* C31: dequeue_messages(target, limit) returns exactly entries with that
\* target, next_attempt <= now and attempts < max_attempts, at most limit of
\* them, ordered by priority descending then next_attempt ascending, and does
\* not modify the queue.
C31_DequeueReturnsDueRowsInOrder ==
  /\ []ReturnedDueRowsInOrder
  /\ [][dequeued' # dequeued => message_queue' = message_queue]_vars

\* A call that returned two rows of different priority and left a due row out
\* because of the limit, with a row that was not due or had no attempts left.
C31_Witness ==
  /\ Len(dequeued.rows) = 2
  /\ dequeued.limit = 2
  /\ dequeued.rows[1].priority > dequeued.rows[2].priority
  /\ Cardinality(Eligible) = 3

\* A call that left out a row that was not yet due and one without attempts left.
C31_WitnessFiltered ==
  /\ Len(dequeued.rows) = 1
  /\ dequeued.limit = 2
  /\ \E e \in message_queue : e.next_attempt > dequeued.at /\ e.attempts < e.max_attempts
  /\ \E e \in message_queue : e.attempts >= e.max_attempts /\ e.next_attempt <= dequeued.at

\* -------------------------------------------------------------------- C32
\* The ids of a set in ascending order.
RECURSIVE Ascending(_)
Ascending(S) ==
  IF S = {} THEN <<>>
  ELSE LET least == CHOOSE x \in S : \A y \in S : x <= y
       IN <<least>> \o Ascending(S \ {least})

InConversation(c) == {m \in DOMAIN messages : messages[m].conversation_id = c}

\* The contextLimit most recent messages of a conversation.
MostRecent(c) ==
  {m \in InConversation(c) :
     Cardinality({o \in InConversation(c) : o > m}) < contextLimit}

\* The contextLimit earliest messages of a conversation.
Earliest(c) ==
  {m \in InConversation(c) :
     Cardinality({o \in InConversation(c) : o < m}) < contextLimit}

Rendered(S) ==
  LET ids == Ascending(S)
  IN joinLines([i \in DOMAIN ids |-> renderMessage(messages, ids[i])])

\* C32: the conversation context built for an offline-codex invocation
\* consists of the last 20 messages of the conversation (the most recent by
\* created_at), rendered in ascending order as "[<sender>]: <content>".
C32_ContextIsMostRecentMessages ==
  context # NoContext => context.text = Rendered(MostRecent(context.conversationId))

\* What the code builds instead: the earliest messages of the conversation,
\* in ascending order and in the same rendering.
C32_ContextIsEarliestMessages ==
  context # NoContext => context.text = Rendered(Earliest(context.conversationId))

\* A context built for a conversation that holds more messages than it takes.
C32_WitnessLongConversation ==
  /\ context # NoContext
  /\ Cardinality(InConversation(context.conversationId)) > contextLimit

\* -------------------------------------------------------------------- C33
TerminalStatuses == {"completed", "failed", "timeout"}

\* The invocation row belongs to an invokeCodexExec call that has not returned.
InFlight(i) ==
  \E id \in DOMAIN calls : calls[id].pc = "tierB" /\ calls[id].invocation = i

\* C33: every invocation follows pending -> running -> one of completed,
\* failed, timeout: whenever invokeCodexExec returns, its row is in a terminal
\* status, completed exactly when the child's exit code is 0, and no row is
\* left pending or running.
C33_InvocationEndsTerminal ==
  /\ [](\A i \in DOMAIN invocations :
          invocations[i].status \notin TerminalStatuses => InFlight(i))
  /\ [][\A i \in DOMAIN invocations' :
          IF i \in DOMAIN invocations
            THEN \/ invocations'[i] = invocations[i]
                 \/ /\ invocations[i].status = "running"
                    /\ invocations'[i].status \in TerminalStatuses
          ELSE invocations'[i].status = "running"]_vars
  /\ [][\A id \in DOMAIN calls, res \in ExecOutcomes :
          TierBReturn(id, res) =>
            LET status == invocations'[calls[id].invocation].status
            IN /\ status \in TerminalStatuses
               /\ status = "completed" <=> (~res.thrown /\ res.exitCode = 0)]_vars

\* An exec has returned with a non-zero exit code and its row says failed.
C33_Witness ==
  \E i \in DOMAIN invocations : invocations[i].status = "failed" /\ ~InFlight(i)

\* An exec has exited with 0 and its row says completed.
C33_WitnessCompleted ==
  \E i \in DOMAIN invocations : invocations[i].status = "completed" /\ ~InFlight(i)

\* An exec that was killed at its timeout.
C33_WitnessTimeout ==
  \E i \in DOMAIN invocations : invocations[i].status = "timeout"

\* -------------------------------------------------------------------- C34
\* The call issues its tool call in this step.
IssuesToolCall(c) == mcpCalls[c].pc # "tool" /\ mcpCalls'[c].pc = "tool"

\* C34: after a CodexMcpClient.sendMessage call fails with a transport or tool
\* error, the client is disconnected (isConnected() is false) and the call
\* returns null; the next sendMessage first reconnects (spawn, list tools,
\* verify the codex tool) before issuing a tool call.
C34_FailedCallDisconnects ==
  /\ [][\A c \in McpCallers :
          (mcpCalls[c].pc \in {"tool", "thrown"} /\ mcpCalls'[c].pc \notin {"tool", "thrown"}
             /\ mcpCalls'[c].result # "result")
            => /\ mcpCalls'[c].failed = "tool"
               /\ mcpCalls'[c].pc \in {"closing", "done"}]_vars
  /\ [][\A c \in McpCallers :
          (mcpCalls[c].pc # "done" /\ mcpCalls'[c].pc = "done" /\ mcpCalls'[c].failed = "tool")
            => /\ mcpCalls'[c].result = "null"
               /\ mcpClient' = NoObject
               /\ mcpTransport' = NoTransport]_vars
  /\ [][\A c \in McpCallers :
          (mcpCalls[c].pc = "idle" /\ mcpCalls'[c].pc # "idle" /\ mcpClient = NoObject)
            => /\ mcpCalls'[c].pc = "start"
               /\ mcpCalls'[c].connected
               /\ mcpClient' # NoObject /\ ~mcpClient'.connected]_vars
  /\ [][\A c \in McpCallers :
          (IssuesToolCall(c) /\ mcpCalls'[c].connected)
            => mcpCalls[c].pc = "list" /\ mcpReady']_vars

\* One call has failed in its tool call and returned null, and the next one
\* has reconnected and has its tool call on the wire.
C34_Witness ==
  \E c \in McpCallers, d \in McpCallers :
    /\ c # d
    /\ mcpCalls[c].failed = "tool" /\ mcpCalls[c].result = "null"
    /\ mcpCalls[c].pc \in {"done", "idle"}
    /\ mcpCalls[d].pc = "tool" /\ mcpCalls[d].connected /\ mcpCalls[d].wire
    /\ mcpClient.gen = 2

\* A failed call has just returned null and the client is disconnected.
C34_WitnessDisconnected ==
  \E c \in McpCallers :
    /\ mcpCalls[c].pc = "done" /\ mcpCalls[c].failed = "tool" /\ mcpCalls[c].wire
    /\ ~isConnected

\* -------------------------------------------------------------------- C39
\* C39: CodexMcpClient never issues a codex or codex-reply tool call before a
\* connect() has completed successfully (transport started, client connected,
\* codex tool verified), also when two sendMessage calls run concurrently on a
\* not-yet-connected client.
C39_ToolCallOnlyAfterConnect ==
  [][\A c \in McpCallers :
       (IssuesToolCall(c) /\ mcpCalls'[c].wire) => mcpReady']_vars

HookItem(sid) == IF hookDrain[sid].rest = <<>> THEN {} ELSE {Head(hookDrain[sid].rest)}

TimerItem == IF timerDrain.rest = <<>> THEN {} ELSE {Head(timerDrain.rest)}

HeldByDrain(e) ==
  \/ \E sid \in SessionIds : \E i \in DOMAIN hookDrain[sid].rest : hookDrain[sid].rest[i].id = e.id
  \/ \E i \in DOMAIN timerDrain.rest : timerDrain.rest[i].id = e.id

\* The periodic drain starts on this target in this step.
DrainStarts(target) ==
  \/ TimerFire /\ target = CLIENTS[1]
  \/ /\ TimerStep /\ timerDrain.rest = <<>> /\ timerDrain.target < Len(CLIENTS)
     /\ target = CLIENTS[timerDrain.target + 1]

\* C37: while a target assistant is offline, a drain for that target leaves the
\* queue and all messages unchanged: no entry's attempts or next_attempt
\* changes and no entry is removed, so entries for an assistant that is never
\* online are never exhausted.
C37_OfflineDrainChangesNothing ==
  /\ [][\A target \in Clients :
          (DrainStarts(target) /\ ~isClientOnline(clients, target))
            => message_queue' = message_queue /\ messages' = messages]_vars
  /\ [][\A e \in message_queue :
          (/\ ~isClientOnline(clients, e.target) /\ ~isClientOnline(clients', e.target)
           /\ ~HeldByDrain(e) /\ e.attempts < e.max_attempts)
            => e \in message_queue']_vars

\* The poll timer has gone through claude's queue on a store where claude never
\* came online, and every row is still there and due.
C37_Witness ==
  /\ nextSid = 1
  /\ ~isClientOnline(clients, "claude")
  /\ timerDrain.target = 1
  /\ Cardinality(message_queue) = MaxQueued
  /\ \A e \in message_queue : e.next_attempt <= now /\ e.attempts < e.max_attempts

\* -------------------------------------------------------------------- C38
\* sendMessage returns for this message in this step, with no invocation_error.
ReturnsWithoutError(id) ==
  /\ id \in DOMAIN calls' /\ id \in DOMAIN messages'
  /\ calls'[id].pc = "done"
  /\ id \in DOMAIN calls => calls[id].pc # "done"
  /\ ~calls'[id].invocationError

\* C38: whenever send_message returns without error, the message it created
\* is not left stranded: its status is delivered or responded (or read, for a
\* delivered message its target marked while the sender waited), or a
\* QueueEntry for it exists.
C38_ReturnedMessageNotStranded ==
  [][\A id \in 1..MaxMessages :
       ReturnsWithoutError(id) =>
         \/ messages'[id].status \in {"delivered", "responded", "read"}
         \/ EntriesOf(message_queue', id) # {}]_vars

\* -------------------------------------------------------------------- C40
\* C40: in every reachable state, whenever getSessionId(a) is defined it is the
\* id of a session currently in the sessions map whose assistant id is a.
C40_SessionIdNamesLiveSessionOfClient ==
  \A a \in Clients :
    getSessionId(activeSessions, a) # Null =>
      /\ getSessionId(activeSessions, a) \in SessionIds
      /\ sessions[getSessionId(activeSessions, a)] = a

\* Two sessions of claude are open and the registry names the later one, while
\* codex's entry names codex's own session or is undefined.
C40_Witness ==
  /\ sessions[1] = "claude" /\ sessions[2] = "claude"
  /\ getSessionId(activeSessions, "claude") = 2
  /\ getSessionId(activeSessions, "codex") = Null

\* A session was closed and another took its client's entry afterwards.
C40_WitnessAfterClose ==
  /\ sessions[1] = Absent /\ sessions[2] = "codex"
  /\ getSessionId(activeSessions, "codex") = 2
  /\ nextSid = 3

\* ---------------------------------------------------------------- C9, C10
EventIds(events) == {events[i].id : i \in DOMAIN events}

\* The last replay's anchor is still in the buffer of the stream it names.
AnchorRetained ==
  /\ out.op = "replay"
  /\ parseStreamId(out.lastEventId) \in StreamNames
  /\ out.lastEventId \in EventIds(streams[parseStreamId(out.lastEventId)].events)

\* The ids of the events that follow the anchor in the buffer, in order.
AfterAnchor ==
  LET events == streams[parseStreamId(out.lastEventId)].events
      at == CHOOSE i \in DOMAIN events : events[i].id = out.lastEventId
  IN [k \in 1..(Len(events) - at) |-> events[at + k].id]

\* C9: replay_after with a still-retained last_event_id sends exactly the
\* retained events stored after it, each once and in order, and returns the
\* stream id.
C9_ReplaySendsRetainedSuffix ==
  AnchorRetained =>
    /\ out.sent = AfterAnchor
    /\ out.result = parseStreamId(out.lastEventId)

\* C10: replay_after with a last_event_id that is empty, of an unknown stream,
\* or no longer (or never) in the buffer sends nothing and returns the empty
\* string.
C10_ReplayOfLostAnchorIsEmpty ==
  (out.op = "replay" /\ ~AnchorRetained) =>
    /\ out.sent = <<>>
    /\ out.result = EmptyString

\* A replay whose anchor had been issued and has since been pruned, while later
\* events are still in the buffer.
C10_Witness ==
  /\ out.op = "replay"
  /\ \E n \in StreamNames, q \in 1..MaxSeq :
       /\ out.lastEventId = makeEventId(n, q)
       /\ q < streams[n].nextSeq
       /\ streams[n].events # <<>>
       /\ out.lastEventId \notin EventIds(streams[n].events)
  /\ out.sent = <<>>
  /\ out.result = EmptyString

====
